---- MODULE Spec2Model ----
(***************************************************************************)
(* The partitioned, flow-controlled dispatch pipeline of package load:     *)
(* scanWithIndexer (the dispatcher), its two ledger operations             *)
(* sendOrQueueBatch and sendOutstandingBatchToWorker, the duplexChannel    *)
(* that links the dispatcher to one worker, and the acknowledging worker.  *)
(*                                                                         *)
(* A Point is identified by its position in the input (1 = first record    *)
(* decoded); its Data is input[position].  A Batch is the sequence of the  *)
(* Points appended to it, so Len() is the length of that sequence.         *)
(***************************************************************************)
EXTENDS Integers, Sequences, FiniteSets, TLC

\* ------------------------------------------------------------------ bounds
MaxInput == 3     \* longest input stream, in records
MaxLanes == 2     \* largest number of duplexChannels
MaxCap   == 1     \* largest queue length of a duplexChannel
MaxBatch == 2     \* largest --batch-size
MaxKey   == 1     \* largest Data value of a record
MaxLimit == 2     \* largest item-count limit
MaxUnit  == 2     \* longest queue and largest count given to a ledger operation alone
MaxLong  == 7     \* longest input stream of the runs that feed one lane only
MaxGroups == 2    \* most generator processes, and largest --interleaved-generation-groups
MaxPoints == 3    \* most calls of the simulator's Next
MaxStats  == 3    \* most Stats handed to sendStats
MaxBurnIn == 2    \* largest burnIn
MaxStatCap == 1   \* largest number of workers, the capacity of the stats channel
MaxProcessors == 2 \* most workers of tsbs_load_clickhouse
MaxHosts == 2     \* most distinct hostnames in the data
MaxRows == 2      \* most rows of one table in one Batch
MaxBatches == 2   \* most Batches handed to one worker
MaxHeader == 6    \* most bytes of input given to readDataHeader

\* the model's uint64 has 4 bits: i - sp.burnIn is taken modulo this
UintModulus == 16

\* the multiplier of the outstanding limit
OLimitFactor == 3

VARIABLES
    \* arguments of scanWithIndexer
    numChannels,         \* len(channels)
    queueLen,            \* queueLen given to createDuplexChannel
    batchSize,
    limit,
    input,               \* the records behind br: the sequence of their Data
    indexer,             \* "constant": ConstantIndexer; "data": an indexer on Data
    hashWorkers,         \* the flag --hash-workers
    \* locals of scanWithIndexer
    pc,
    itemsRead,
    batches,
    outstandingBatches,
    ocnt,
    chosen,              \* lane of the last acknowledgment received
    flushIdx,            \* idx of the loop that sends the last batches
    \* decoder
    called,              \* records decoded so far
    \* duplexChannels
    toWorker,
    toScanner,
    \* workers
    wpc,
    \* history
    admitted,            \* per lane: the Batches given to sendOrQueueBatch, in order
    delivered,           \* per lane: the Batches placed on toWorker, in order
    acked,               \* per lane: acknowledgments received by the dispatcher
    lastOp,              \* the last ledger operation and the state it found
    created,             \* calls of factory.New() so far
    panicMsg,            \* what the run panicked with, "" while it has not
    closed,              \* per lane: 0 open, 1 toWorker closed, 2 toScanner closed too
    batchId,             \* per lane: which Batch of the factory batches[i] is, 0 none
    \* tsbs_generate_data, one process per interleavedGenerationGroupID: a
    \* record with the fields
    \*   interleavedGenerationGroups
    \*   simNext      what sim.Next returns, call by call (the same seed for all)
    \*   gpc          per process: "init", "loop", "done", "fatal"
    \*   simCalls     per process: calls of sim.Next so far
    \*   currentInterleavedGroup
    \*   serialized   per process: the calls whose point it has serialized
    generator,
    \* query.statProcessor: a record with the fields
    \*   spWorkers    workers, the argument of process
    \*   burnIn, prewarmQueries
    \*   toSendStats  the Stats the workers hand to sendStats, in order
    \*   sentStats    how many of them have been put on sp.ch
    \*   spChMade     sp.ch = make(...) has run
    \*   spCh         the buffer of sp.ch: positions in toSendStats
    \*   spChClosed
    \*   wg           the counter of sp.wg
    \*   ppc          process: "make", "add", "range", "final", "end"
    \*   spI          i of process
    \*   statMapping  per group: the Stats pushed into it, in order
    \*   discardedStats  the Stats given back to statPool without a push
    \*   reported     the query count of the final line, -1 before
    \*   cwpc         CloseAndWait: "idle", "wait", "returned", "panic"
    \*   sentAtClose  sentStats when close(sp.ch) ran
    statProcessor,
    \* tsbs_load_clickhouse, the processors and their hostname -> tags_id
    \* map: a record with the fields
    \*   csiM         globalSyncCSI.m
    \*   tagsTable    the rows of the tags table, in insertion order
    \*   rowsLeft     per processor: the Batches it has still to process
    \*   lpc          per processor: "check", "insert", "copy", "done"
    \*   newTags      per processor: newTags of processCSI
    processors,
    \* tsbs_load_clickhouse, dbCreator.readDataHeader: a record with the fields
    \*   br           the bytes behind the buffered reader
    \*   brPos        how many of them have been consumed
    \*   dTags        d.tags
    \*   dCols        d.cols
    \*   hpc          readDataHeader: "idle", "first", "next", "done", "fatal"
    \*   fatalMsg     the format string given to fatal, "" if none
    dbCreator

vars == <<numChannels, queueLen, batchSize, limit, input, indexer, hashWorkers,
          pc, itemsRead, batches, outstandingBatches, ocnt, chosen, flushIdx,
          called, toWorker, toScanner, wpc,
          admitted, delivered, acked, lastOp, created, panicMsg, closed, batchId,
          generator, statProcessor, processors, dbCreator>>

\* the programs of the repository that run apart from scanWithIndexer
clickhouse == <<processors, dbCreator>>

others == <<generator, statProcessor, clickhouse>>

\* what no step of scanWithIndexer and its workers changes: its arguments, and
\* the other programs
config == <<numChannels, queueLen, batchSize, limit, input, indexer, hashWorkers,
            others>>

\* the generator processes, 0-indexed
Generators == 0 .. MaxGroups - 1

\* no generator runs
GeneratorIdle ==
    generator = [interleavedGenerationGroups |-> 1,
                 simNext |-> <<>>,
                 gpc |-> [g \in Generators |-> "done"],
                 simCalls |-> [g \in Generators |-> 0],
                 currentInterleavedGroup |-> [g \in Generators |-> 0],
                 serialized |-> [g \in Generators |-> <<>>]]

\* allQueriesLabel, labelColdQueries, labelWarmQueries
labelAllQueries == "all queries"
labelColdQueries == "cold queries"
labelWarmQueries == "warm queries"

\* the labels of the queries of a run
QueryLabels == {"q1", "q2"}

StatGroups == {labelAllQueries, labelColdQueries, labelWarmQueries} \cup QueryLabels

\* statMapping with nothing pushed
NoPushes == [grp \in StatGroups |-> <<>>]

\* no statProcessor runs
StatProcessorIdle ==
    statProcessor = [spWorkers |-> 1,
                     burnIn |-> 0,
                     prewarmQueries |-> FALSE,
                     toSendStats |-> <<>>,
                     sentStats |-> 0,
                     spChMade |-> FALSE,
                     spCh |-> <<>>,
                     spChClosed |-> FALSE,
                     wg |-> 0,
                     ppc |-> "end",
                     spI |-> 0,
                     statMapping |-> NoPushes,
                     discardedStats |-> <<>>,
                     reported |-> -1,
                     cwpc |-> "returned",
                     sentAtClose |-> 0]

\* the workers of tsbs_load_clickhouse, one processor each
Processors == 0 .. MaxProcessors - 1

\* no processor runs
ProcessorsIdle ==
    processors = [csiM |-> <<>>,
                  tagsTable |-> <<>>,
                  rowsLeft |-> [w \in Processors |-> <<>>],
                  lpc |-> [w \in Processors |-> "done"],
                  newTags |-> [w \in Processors |-> <<>>]]

\* no header is read
DBCreatorIdle ==
    dbCreator = [br |-> <<>>,
                 brPos |-> 0,
                 dTags |-> <<>>,
                 dCols |-> <<>>,
                 hpc |-> "idle",
                 fatalMsg |-> ""]

ClickhouseIdle == ProcessorsIdle /\ DBCreatorIdle

OthersIdle == GeneratorIdle /\ StatProcessorIdle /\ ClickhouseIdle
history == <<admitted, delivered, acked, lastOp>>
observed == <<created, panicMsg>>
lifecycle == <<closed, batchId>>

Lanes == 0 .. (numChannels - 1)

Min(a, b) == IF a < b THEN a ELSE b

RECURSIVE SumLen(_)
SumLen(s) == IF s = <<>> THEN 0 ELSE Len(Head(s)) + SumLen(Tail(s))

\* input streams: every sequence of Data values of length 0..MaxInput
Inputs == UNION {[1 .. n -> 0 .. MaxKey] : n \in 0 .. MaxInput}

\* ----------------------------------------------------------- duplexChannel
\* createDuplexChannel: both channels are buffered with queueLen places
Capacity == queueLen

\* a send on toWorker that no free place lets through
CanSendToWorkerNever(ch) == FALSE

\* dc.toWorker <- b can proceed only while the buffer has a free place
CanSendToWorker(ch) == Len(ch) < Capacity

\* toScanner made with one place less than toWorker
CanSendToScannerSmaller(n) == n < Capacity - 1

\* dc.toScanner <- true can proceed only while the buffer has a free place
CanSendToScanner(n) == n < Capacity

\* sendToWorker: the channel after dc.toWorker <- b
sendToWorker(ch, b) == Append(ch, b)

\* ------------------------------------------------------------------ ledger
\* sendOrQueueBatch without the test for work that has to be sent first
sendOrQueueBatchIgnoringQueue(ch, count, batch, unsent) ==
    IF Len(ch) < Capacity
    THEN [count |-> count + 1, ch |-> sendToWorker(ch, batch), unsent |-> unsent]
    ELSE [count |-> count + 1, ch |-> ch, unsent |-> Append(unsent, batch)]

\* sendOrQueueBatch that drops the result of append
sendOrQueueBatchDroppingAppend(ch, count, batch, unsent) ==
    IF Len(unsent) = 0 /\ Len(ch) < Capacity
    THEN [count |-> count + 1, ch |-> sendToWorker(ch, batch), unsent |-> unsent]
    ELSE [count |-> count + 1, ch |-> ch, unsent |-> unsent]

\* sendOrQueueBatch that counts a Batch only when it is placed on toWorker
sendOrQueueBatchCountingSends(ch, count, batch, unsent) ==
    IF Len(unsent) = 0 /\ Len(ch) < Capacity
    THEN [count |-> count + 1, ch |-> sendToWorker(ch, batch), unsent |-> unsent]
    ELSE [count |-> count, ch |-> ch, unsent |-> Append(unsent, batch)]

\* sendOrQueueBatch with len(ch.toWorker) <= cap(ch.toWorker)
sendOrQueueBatchOffByOne(ch, count, batch, unsent) ==
    IF Len(unsent) = 0 /\ Len(ch) <= Capacity
    THEN [count |-> count + 1, ch |-> sendToWorker(ch, batch), unsent |-> unsent]
    ELSE [count |-> count + 1, ch |-> ch, unsent |-> Append(unsent, batch)]

\* sendOrQueueBatch that queues every Batch
sendOrQueueBatchAlwaysQueue(ch, count, batch, unsent) ==
    [count |-> count + 1, ch |-> ch, unsent |-> Append(unsent, batch)]

\* sendOrQueueBatch that sends without looking at the channel
sendOrQueueBatchUnchecked(ch, count, batch, unsent) ==
    IF Len(unsent) = 0
    THEN [count |-> count + 1, ch |-> sendToWorker(ch, batch), unsent |-> unsent]
    ELSE [count |-> count + 1, ch |-> ch, unsent |-> Append(unsent, batch)]

\* sendOrQueueBatch: count, channel and unsent queue after the call
sendOrQueueBatch(ch, count, batch, unsent) ==
    IF Len(unsent) = 0 /\ Len(ch) < Capacity
    THEN [count |-> count + 1, ch |-> sendToWorker(ch, batch), unsent |-> unsent]
    ELSE [count |-> count + 1, ch |-> ch, unsent |-> Append(unsent, batch)]

\* sendOutstandingBatchToWorker that leaves the queued Batches where they are
sendOutstandingBatchToWorkerKeepingQueue(ch, count, unsent) ==
    [count |-> count - 1, ch |-> ch, unsent |-> unsent]

\* sendOutstandingBatchToWorker that adjusts count only when it sends
sendOutstandingBatchToWorkerKeepingCount(ch, count, unsent) ==
    IF Len(unsent) > 0
    THEN [count |-> count - 1, ch |-> sendToWorker(ch, Head(unsent)),
          unsent |-> IF Len(unsent) > 1 THEN Tail(unsent) ELSE <<>>]
    ELSE [count |-> count, ch |-> ch, unsent |-> unsent]

\* sendOutstandingBatchToWorker that takes the newest queued Batch
sendOutstandingBatchToWorkerSendingLast(ch, count, unsent) ==
    IF Len(unsent) > 0
    THEN [count |-> count - 1, ch |-> sendToWorker(ch, unsent[Len(unsent)]),
          unsent |-> SubSeq(unsent, 1, Len(unsent) - 1)]
    ELSE [count |-> count - 1, ch |-> ch, unsent |-> unsent]

\* sendOutstandingBatchToWorker: count, channel and unsent queue after the
\* call; the send inside it waits for a free place on the channel
sendOutstandingBatchToWorker(ch, count, unsent) ==
    IF Len(unsent) > 0
    THEN [count |-> count - 1, ch |-> sendToWorker(ch, Head(unsent)),
          unsent |-> IF Len(unsent) > 1 THEN Tail(unsent) ELSE <<>>]
    ELSE [count |-> count - 1, ch |-> ch, unsent |-> unsent]

\* ----------------------------------------------------------------- indexer
\* GetPointIndexer with the two indexers exchanged
GetPointIndexerSwapped(hw) == IF hw THEN "constant" ELSE "data"

\* benchmark.GetPointIndexer: hostnameIndexer with --hash-workers, else
\* ConstantIndexer
GetPointIndexer(hw) == IF hw THEN "data" ELSE "constant"

\* main: the queue mode handed to RunBenchmark
RunBenchmarkMode(hw) == IF hw THEN "WorkerPerQueue" ELSE "SingleQueue"

\* an indexer that deals the Points out in turn and ignores their Data
GetIndexByPosition(p) == p % numChannels

\* PointIndexer.GetIndex of the Point at position p
GetIndex(p) == IF indexer = "constant" THEN 0 ELSE input[p]

\* olimit := numChannels * cap(channels[0].toWorker) * 3
olimit == numChannels * Capacity * OLimitFactor

\* ------------------------------------------------------------------- Init
NoOp == [op |-> "none", lane |-> 0, count |-> 0, unsent |-> <<>>, ch |-> <<>>,
         batch |-> <<>>]

\* the channels are new, the workers wait for their first Batch and
\* scanWithIndexer is about to run
Constructed ==
    /\ pc = "start"
    /\ itemsRead = 0
    /\ called = 0
    /\ batches = [i \in Lanes |-> <<>>]
    /\ outstandingBatches = [i \in Lanes |-> <<>>]
    /\ ocnt = 0
    /\ chosen = 0
    /\ flushIdx = 0
    /\ toWorker = [i \in Lanes |-> <<>>]
    /\ toScanner = [i \in Lanes |-> 0]
    /\ wpc = [i \in Lanes |-> "recv"]
    /\ admitted = [i \in Lanes |-> <<>>]
    /\ delivered = [i \in Lanes |-> <<>>]
    /\ acked = [i \in Lanes |-> 0]
    /\ lastOp = NoOp
    /\ created = 0
    /\ panicMsg = ""
    /\ closed = [i \in Lanes |-> 0]
    /\ batchId = [i \in Lanes |-> 0]

Init ==
    /\ numChannels \in 1 .. MaxLanes
    /\ queueLen \in 0 .. MaxCap
    /\ batchSize \in 0 .. MaxBatch
    /\ limit \in 0 .. MaxLimit
    /\ hashWorkers \in BOOLEAN
    /\ indexer = GetPointIndexer(hashWorkers)
    /\ OthersIdle
    /\ input \in Inputs
    /\ indexer = "constant" => \A k \in DOMAIN input : input[k] = 0
    /\ Constructed


\* ------------------------------------------------------- dispatcher steps
\* batches[idx].Len() > int(batchSize)
IsFullStrict(b) == Len(b) > batchSize

\* if batches[idx].Len() >= int(batchSize)
IsFull(b) == Len(b) >= batchSize

\* the last batches go out only when they are full
NeedsFlushOnlyFull(b) == Len(b) >= batchSize

\* the last batches go out even when they are empty
NeedsFlushAlways(b) == TRUE

\* if b.Len() > 0: do not enqueue empty batches
NeedsFlush(b) == Len(b) > 0

\* if ocnt <= 1 { break }
AllAcknowledgedOffByOne(count) == count <= 1

\* the second loop left without a look at ocnt
AllAcknowledgedUnchecked(count) == TRUE

\* if ocnt == 0 { break }
AllAcknowledged(count) == count = 0

\* what a step placed on a channel whose content went from old to new
Placed(old, new) == SubSeq(new, Len(old) + 1, Len(new))

\* outstandingBatches[idx] = sendOrQueueBatch(channels[idx], &ocnt, batch, ...)
Admit(idx, batch, phase) ==
    LET r == sendOrQueueBatch(toWorker[idx], ocnt, batch, outstandingBatches[idx])
    IN  /\ ocnt' = r.count
        /\ toWorker' = [toWorker EXCEPT ![idx] = r.ch]
        /\ outstandingBatches' = [outstandingBatches EXCEPT ![idx] = r.unsent]
        /\ admitted' = [admitted EXCEPT
                           ![idx] = Append(@, [batch |-> batch, phase |-> phase,
                                               id |-> batchId[idx]])]
        /\ delivered' = [delivered EXCEPT
                           ![idx] = @ \o Placed(toWorker[idx], r.ch)]
        /\ lastOp' = [op |-> "admit", lane |-> idx, count |-> ocnt,
                      unsent |-> outstandingBatches[idx], ch |-> toWorker[idx],
                      batch |-> batch]

\* the receive from channels[i].toScanner can proceed: a value is buffered, or
\* the channel is closed, which makes every receive return at once
AckReady(i) == toScanner[i] > 0 \/ closed[i] = 2

\* the select takes a value from every channel that has one
ReceivedFromAllReady(i) == {j \in Lanes : AckReady(j)}

\* ch, _, _ := reflect.Select(...): the one channel the select received from
ReceivedFrom(i) == {i}

\* an acknowledgment of lane i is received and
\* outstandingBatches[i] = sendOutstandingBatchToWorker(channels[i], &ocnt, ...)
\* runs; when its send finds toWorker full the dispatcher waits in pc = blocked
Release(i, next, blocked) ==
    LET r == sendOutstandingBatchToWorker(toWorker[i], ocnt, outstandingBatches[i])
    IN  /\ toScanner' = [j \in Lanes |->
                           IF j \in ReceivedFrom(i) /\ toScanner[j] > 0
                           THEN toScanner[j] - 1 ELSE toScanner[j]]
        /\ acked' = [acked EXCEPT ![i] = @ + 1]
        /\ chosen' = i
        /\ ocnt' = r.count
        /\ lastOp' = [op |-> "release", lane |-> i, count |-> ocnt,
                      unsent |-> outstandingBatches[i], ch |-> toWorker[i],
                      batch |-> <<>>]
        /\ IF Len(outstandingBatches[i]) > 0 /\ ~CanSendToWorker(toWorker[i])
           THEN /\ pc' = blocked
                /\ UNCHANGED <<toWorker, outstandingBatches, delivered>>
           ELSE /\ pc' = next
                /\ toWorker' = [toWorker EXCEPT ![i] = r.ch]
                /\ outstandingBatches' = [outstandingBatches EXCEPT ![i] = r.unsent]
                /\ delivered' = [delivered EXCEPT
                                    ![i] = @ \o Placed(toWorker[i], r.ch)]

\* the check of --batch-size is missing
BatchSizeInvalidNever(n) == FALSE

\* if batchSize < 1
BatchSizeInvalid(n) == n < 1

\* panic("--batch-size cannot be less than 1")
BatchSizeMsg == "--batch-size cannot be less than 1"

\* the run-time panic of batches[idx] with idx outside the slice
IndexMsg == "index out of range"

\* panic(err) of a Decode that could not read and did not find io.EOF
DecodeMsg == "decode error"

\* if batchSize < 1 { panic }; batches, outstandingBatches, cases, ocnt, olimit;
\* batches[i] = factory.New() runs once per channel, after the check
Start ==
    /\ pc = "start"
    /\ IF BatchSizeInvalid(batchSize)
       THEN /\ pc' = "panic"
            /\ panicMsg' = BatchSizeMsg
            /\ UNCHANGED <<created, batchId>>
       ELSE /\ pc' = "loopA"
            /\ created' = created + numChannels
            /\ batchId' = [i \in Lanes |-> i + 1]
            /\ UNCHANGED panicMsg
    /\ UNCHANGED closed
    /\ UNCHANGED <<config, itemsRead, batches, outstandingBatches, ocnt, chosen,
                   flushIdx, called, toWorker, toScanner, wpc, history>>

\* if limit > 0 && itemsRead == limit { break }
\* if itemsRead == limit { break }
LimitReachedAtUnchecked(read) == read = limit

LimitReachedAt(read) == limit > 0 /\ read = limit

LimitReached == LimitReachedAt(itemsRead)

BreakOnLimit ==
    /\ pc = "loopA"
    /\ LimitReached
    /\ pc' = "flush"
    /\ flushIdx' = 0
    /\ UNCHANGED <<config, itemsRead, batches, outstandingBatches, ocnt, chosen,
                   called, toWorker, toScanner, wpc, history, observed,
                   lifecycle>>

\* the default case is dropped one Batch too early
DefaultCaseOfferedEarly(count) == count + 1 < olimit

\* caseLimit-- is missing: the default case is always among the cases
DefaultCaseOfferedAlways(count) == TRUE

\* the default case is dropped one Batch too late
DefaultCaseOfferedLate(count) == count <= olimit

\* if ocnt >= olimit { caseLimit-- }: the default case stays among the cases
DefaultCaseOffered(count) == count < olimit

\* reflect.Select(cases[:caseLimit]) picks the receive of lane i
SelectAck(i) ==
    /\ pc = "loopA"
    /\ ~LimitReached
    /\ i \in Lanes
    /\ AckReady(i)
    /\ Release(i, "decode", "sendA")
    /\ UNCHANGED <<config, itemsRead, batches, flushIdx, called, wpc, admitted, observed,
                   lifecycle>>

\* reflect.Select(cases[:caseLimit]) takes the default case: it is among the
\* cases only while ocnt < olimit and is taken only when no receive is ready
SelectDefault ==
    /\ pc = "loopA"
    /\ ~LimitReached
    /\ DefaultCaseOffered(ocnt)
    /\ \A i \in Lanes : ~AckReady(i)
    /\ pc' = "decode"
    /\ UNCHANGED <<config, itemsRead, batches, outstandingBatches, ocnt, chosen,
                   flushIdx, called, toWorker, toScanner, wpc, history, observed,
                   lifecycle>>

\* ch.sendToWorker(unsent[0]) of sendOutstandingBatchToWorker gets its place
SendUnblocked ==
    /\ pc \in {"sendA", "sendB"}
    /\ CanSendToWorker(toWorker[chosen])
    /\ LET r == sendOutstandingBatchToWorker(toWorker[chosen], ocnt,
                                             outstandingBatches[chosen])
       IN  /\ toWorker' = [toWorker EXCEPT ![chosen] = r.ch]
           /\ outstandingBatches' = [outstandingBatches EXCEPT ![chosen] = r.unsent]
           /\ delivered' = [delivered EXCEPT
                               ![chosen] = @ \o Placed(toWorker[chosen], r.ch)]
    /\ pc' = IF pc = "sendA" THEN "decode" ELSE "loopB"
    /\ UNCHANGED <<config, itemsRead, batches, ocnt, chosen, flushIdx, called,
                   toScanner, wpc, admitted, acked, lastOp, observed,
                   lifecycle>>

\* batches[idx] keeps the Batch that was just handed over
ReusedBatchId(old, made) == old

\* batches[idx] = factory.New(): the Batch made after made others
NewBatchId(old, made) == made + 1

\* the loop goes on after a nil item
OnEndOfInputContinue == "loopA"

\* if item == nil { break }: on to the loop that sends the last batches
OnEndOfInput == "flush"

\* itemsRead++ placed before batches[idx].Append(item)
itemsReadCountedFirst(read) == read + 1

\* itemsRead when batches[idx] panics: itemsRead++ comes after the Append
itemsReadAtAppend(read) == read

\* item := decoder.Decode(br) ... batches[idx] = factory.New()
Decode ==
    /\ pc = "decode"
    /\ IF called = Len(input)
       THEN \* item == nil
            /\ pc' = OnEndOfInput
            /\ flushIdx' = 0
            /\ UNCHANGED <<itemsRead, batches, outstandingBatches, ocnt, called,
                           toWorker, history, observed, batchId>>
       ELSE LET p == called + 1
                idx == GetIndex(p)
            IN  /\ called' = p
                /\ UNCHANGED flushIdx
                /\ IF idx \notin Lanes
                   THEN \* batches[idx]: index out of range
                        /\ pc' = "panic"
                        /\ panicMsg' = IndexMsg
                        /\ itemsRead' = itemsReadAtAppend(itemsRead)
                        /\ UNCHANGED <<batches, outstandingBatches, ocnt,
                                       toWorker, history, created, batchId>>
                   ELSE LET b == Append(batches[idx], p)
                        IN  /\ pc' = "loopA"
                            /\ itemsRead' = itemsRead + 1
                            /\ UNCHANGED <<acked, panicMsg>>
                            /\ IF IsFull(b)
                               THEN /\ Admit(idx, b, "A")
                                    /\ batches' = [batches EXCEPT ![idx] = <<>>]
                                    /\ created' = created + 1
                                    /\ batchId' = [batchId EXCEPT
                                                      ![idx] = NewBatchId(@, created)]
                               ELSE /\ batches' = [batches EXCEPT ![idx] = b]
                                    /\ UNCHANGED <<outstandingBatches, ocnt, toWorker,
                                                   admitted, delivered, lastOp,
                                                   created, batchId>>
    /\ UNCHANGED <<config, chosen, toScanner, wpc, closed>>

\* for idx, b := range batches { if b.Len() > 0 { sendOrQueueBatch } }
Flush ==
    /\ pc = "flush"
    /\ IF flushIdx < numChannels
       THEN /\ flushIdx' = flushIdx + 1
            /\ pc' = "flush"
            /\ IF NeedsFlush(batches[flushIdx])
               THEN Admit(flushIdx, batches[flushIdx], "B")
               ELSE UNCHANGED <<outstandingBatches, ocnt, toWorker, admitted,
                                delivered, lastOp>>
       ELSE /\ pc' = "loopB"
            /\ UNCHANGED <<flushIdx, outstandingBatches, ocnt, toWorker, admitted,
                           delivered, lastOp>>
    /\ UNCHANGED <<config, itemsRead, batches, chosen, called, toScanner, wpc, acked, observed,
                   lifecycle>>

\* if ocnt == 0 { break }; return itemsRead
Return ==
    /\ pc = "loopB"
    /\ AllAcknowledged(ocnt)
    /\ pc' = "done"
    /\ UNCHANGED <<config, itemsRead, batches, outstandingBatches, ocnt, chosen,
                   flushIdx, called, toWorker, toScanner, wpc, history, observed,
                   lifecycle>>

\* reflect.Select(cases[:len(cases)-1]) receives from lane i
DrainAck(i) ==
    /\ pc = "loopB"
    /\ ~AllAcknowledged(ocnt)
    /\ i \in Lanes
    /\ AckReady(i)
    /\ Release(i, "loopB", "sendB")
    /\ UNCHANGED <<config, itemsRead, batches, flushIdx, called, wpc, admitted, observed,
                   lifecycle>>

\* ----------------------------------------------------------------- worker
\* for _ = range c.toWorker
WorkerRecv(i) ==
    /\ i \in Lanes
    /\ wpc[i] = "recv"
    /\ Len(toWorker[i]) > 0
    /\ toWorker' = [toWorker EXCEPT ![i] = Tail(@)]
    /\ wpc' = [wpc EXCEPT ![i] = "ack"]
    /\ UNCHANGED <<config, pc, itemsRead, batches, outstandingBatches, ocnt, chosen,
                   flushIdx, called, toScanner, history, observed,
                   lifecycle>>

\* c.sendToScanner()
WorkerAck(i) ==
    /\ i \in Lanes
    /\ wpc[i] = "ack"
    /\ CanSendToScanner(toScanner[i])
    /\ toScanner' = [toScanner EXCEPT ![i] = @ + 1]
    /\ wpc' = [wpc EXCEPT ![i] = "recv"]
    /\ UNCHANGED <<config, pc, itemsRead, batches, outstandingBatches, ocnt, chosen,
                   flushIdx, called, toWorker, history, observed,
                   lifecycle>>

Dispatcher ==
    \/ Start
    \/ BreakOnLimit
    \/ \E i \in 0 .. MaxLanes - 1 : SelectAck(i)
    \/ SelectDefault
    \/ SendUnblocked
    \/ Decode
    \/ Flush
    \/ Return
    \/ \E i \in 0 .. MaxLanes - 1 : DrainAck(i)

Worker(i) == WorkerRecv(i) \/ WorkerAck(i)

Next == Dispatcher \/ \E i \in 0 .. MaxLanes - 1 : Worker(i)

Spec == Init /\ [][Next]_vars

\* the Go scheduler runs every goroutine that can take a step
FairSpec ==
    /\ Spec
    /\ WF_vars(Dispatcher)
    /\ \A i \in 0 .. MaxLanes - 1 : WF_vars(Worker(i))

TypeOK ==
    /\ pc \in {"start", "loopA", "decode", "sendA", "flush", "loopB", "sendB",
               "done", "panic"}
    /\ \A i \in Lanes : Len(toWorker[i]) <= Capacity /\ toScanner[i] \in 0 .. Capacity


\* ---------------------------------------------------------------- history
\* the Batches admitted on lane i, in the order of their admission
AdmittedBatches(i) == [j \in 1 .. Len(admitted[i]) |-> admitted[i][j].batch]

RECURSIVE SumLanes(_, _)
SumLanes(f, n) == IF n = 0 THEN 0 ELSE f[n - 1] + SumLanes(f, n - 1)

TotalAdmitted == SumLanes([i \in Lanes |-> Len(admitted[i])], numChannels)
TotalDelivered == SumLanes([i \in Lanes |-> Len(delivered[i])], numChannels)
TotalPending == SumLanes([i \in Lanes |-> Len(outstandingBatches[i])], numChannels)
TotalAcked == SumLanes(acked, numChannels)
TotalDeliveredSize == SumLanes([i \in Lanes |-> SumLen(delivered[i])], numChannels)

\* the places <<lane, batch, position>> where Point p was put on a toWorker channel
Occurrences(p) ==
    UNION {UNION {{<<i, j, k>> : k \in {k \in 1 .. Len(delivered[i][j]) :
                                          delivered[i][j][k] = p}} :
                  j \in 1 .. Len(delivered[i])} :
           i \in Lanes}

\* the number of times Batch b occurs in the sequence s
Count(s, b) == Cardinality({j \in 1 .. Len(s) : s[j] = b})

\* the arguments are valid and the indexer keeps its contract
ValidRun ==
    /\ queueLen >= 1
    /\ batchSize >= 1
    /\ \A k \in 1 .. Len(input) : GetIndex(k) \in Lanes

\* the dispatcher is at rest between two steps of its own (worker step or stutter)
DispatcherIdle ==
    UNCHANGED <<pc, itemsRead, batches, outstandingBatches, ocnt, chosen, flushIdx,
                called, acked, admitted, delivered, created, panicMsg>>

\* ------------------------------------------------------------------ claims

\* C1: per-lane FIFO. On every lane the Batches placed on toWorker so far,
\* followed by the Batches still held in the pending queue, are exactly the
\* Batches admitted on that lane in the order of their admission; so Batches
\* reach toWorker in admission order whether they were sent at once or queued.
C1_FifoPerLane ==
    \A i \in Lanes : delivered[i] \o outstandingBatches[i] = AdmittedBatches(i)

\* C1 witness: a lane on which a Batch sent at once was followed by a Batch
\* that waited in the pending queue and has just been released onto toWorker.
C1_Witness ==
    /\ lastOp.op = "release"
    /\ pc \notin {"sendA", "sendB"}
    /\ Len(lastOp.unsent) >= 2
    /\ Len(delivered[lastOp.lane]) >= 2
    /\ delivered[lastOp.lane][Len(delivered[lastOp.lane])] = Head(lastOp.unsent)

\* C2: no record is dropped or duplicated. When scanWithIndexer has returned,
\* every decoded record occurs exactly once in the Batches placed on toWorker
\* channels, on the lane the indexer gives for it, and the sizes of the
\* delivered Batches add up to the returned count.
C2_NoLossNoDuplicate ==
    pc = "done" =>
        /\ \A p \in 1 .. itemsRead :
              /\ Cardinality(Occurrences(p)) = 1
              /\ \A t \in Occurrences(p) : t[1] = GetIndex(p)
        /\ TotalDeliveredSize = itemsRead
        /\ called = itemsRead

\* C2 witness: a run over two lanes that returned after reading at least three
\* records, with Batches delivered on both lanes and a partial last Batch.
C2_Witness ==
    /\ pc = "done"
    /\ itemsRead >= 3
    /\ numChannels = 2
    /\ \A i \in Lanes : Len(delivered[i]) >= 1
    /\ \E i \in Lanes : Len(batches[i]) > 0

\* C3: scanWithIndexer returns only with ocnt = 0, every pending queue empty,
\* every admitted Batch sent and acknowledged; and in the drain loop the
\* dispatcher leaves as soon as ocnt is 0: its only step from there is the
\* return, without another acknowledgment or send.
C3_ReturnsDrained ==
    [][ /\ pc' = "done" =>
              /\ ocnt' = 0
              /\ \A i \in Lanes :
                    /\ outstandingBatches'[i] = <<>>
                    /\ delivered'[i] = AdmittedBatches(i)'
                    /\ acked'[i] = Len(admitted'[i])
                    /\ toWorker'[i] = <<>>
                    /\ toScanner'[i] = 0
        /\ (pc \in {"loopB", "sendB"} /\ ocnt = 0) =>
              \/ DispatcherIdle
              \/ pc = "loopB" /\ pc' = "done" /\ acked' = acked /\ delivered' = delivered
      ]_vars

\* C3 witness: the dispatcher returned right after the release that took ocnt
\* from 1 to 0, having admitted three or more Batches over two lanes.
C3_Witness ==
    /\ pc = "done"
    /\ lastOp.op = "release"
    /\ lastOp.count = 1
    /\ numChannels = 2
    /\ TotalAdmitted >= 3
    /\ \A i \in Lanes : Len(admitted[i]) >= 1

\* C4: termination. With valid arguments, an indexer in range and workers that
\* keep consuming and acknowledge every Batch once, scanWithIndexer returns.
C4_Terminates == ValidRun => <>(pc = "done")

\* C4 witness: a return reached with valid arguments after as many Batches
\* were admitted as the outstanding limit allows.
C4_Witness ==
    /\ pc = "done"
    /\ ValidRun
    /\ TotalAdmitted >= olimit

\* C5: the trailing partial Batches. No empty Batch is ever admitted; once the
\* last batches were sent, a lane's non-empty in-progress Batch has been
\* admitted exactly once, in Phase B, and a lane whose in-progress Batch is
\* empty has no Phase B admission; at the return it has been placed on toWorker
\* exactly once.
C5_PartialBatches ==
    /\ \A i \in Lanes : \A j \in 1 .. Len(admitted[i]) :
          Len(admitted[i][j].batch) > 0
    /\ pc \in {"loopB", "sendB", "done"} =>
          \A i \in Lanes :
             LET phaseB == {j \in 1 .. Len(admitted[i]) : admitted[i][j].phase = "B"}
             IN  IF Len(batches[i]) > 0
                 THEN /\ Cardinality(phaseB) = 1
                      /\ \A j \in phaseB : admitted[i][j].batch = batches[i]
                      /\ Count(AdmittedBatches(i), batches[i]) = 1
                      /\ pc = "done" => Count(delivered[i], batches[i]) = 1
                 ELSE phaseB = {}

\* C5 witness: a return where one lane had a partial Batch smaller than
\* batchSize and another lane had an empty in-progress Batch.
C5_Witness ==
    /\ pc = "done"
    /\ \E i \in Lanes : Len(batches[i]) > 0 /\ Len(batches[i]) < batchSize
    /\ \E i \in Lanes : Len(batches[i]) = 0 /\ Len(admitted[i]) > 0

RoutedTo(i, n) == Cardinality({p \in 1 .. n : GetIndex(p) = i})

\* C7: batch sizing. Every Batch admitted in Phase A holds exactly batchSize
\* records, every Batch admitted in Phase B holds 1 .. batchSize-1 records; at
\* the return a lane that got K records has received K div batchSize full
\* Batches followed by one Batch of K mod batchSize records if that is not 0.
C7_BatchSizing ==
    /\ \A i \in Lanes : \A j \in 1 .. Len(admitted[i]) :
          LET a == admitted[i][j]
          IN  /\ a.phase = "A" => Len(a.batch) = batchSize
              /\ a.phase = "B" => Len(a.batch) >= 1 /\ Len(a.batch) <= batchSize - 1
    /\ pc = "done" =>
          \A i \in Lanes :
             LET K == RoutedTo(i, itemsRead)
                 full == K \div batchSize
                 rest == K % batchSize
             IN  /\ Len(delivered[i]) = full + (IF rest # 0 THEN 1 ELSE 0)
                 /\ \A j \in 1 .. full : Len(delivered[i][j]) = batchSize
                 /\ rest # 0 => Len(delivered[i][full + 1]) = rest

\* C7 witness: flush threshold 2 and 3 records on one lane: one 2-record Batch
\* from Phase A and one 1-record Batch from Phase B.
C7_Witness ==
    /\ pc = "done"
    /\ numChannels = 1
    /\ batchSize = 2
    /\ itemsRead = 3
    /\ delivered[0] = << <<1, 2>>, <<3>> >>
    /\ admitted[0][1].phase = "A"
    /\ admitted[0][2].phase = "B"

\* C8: the outstanding counter. In every state ocnt is the number of admits
\* minus the number of releases (acknowledgments received), it is never
\* negative, and it is 0 when every admitted Batch has been acknowledged.
C8_CounterIsAdmitsMinusReleases ==
    /\ ocnt = TotalAdmitted - TotalAcked
    /\ ocnt >= 0
    /\ (\A i \in Lanes : acked[i] = Len(admitted[i])) => ocnt = 0

\* C8 witness: three or more admits and at least one release, fewer than admits,
\* one of them applied to a lane whose pending queue was empty.
C8_Witness ==
    /\ TotalAdmitted >= 3
    /\ TotalAcked >= 1
    /\ TotalAcked < TotalAdmitted
    /\ lastOp.op = "release"
    /\ lastOp.unsent = <<>>

\* C9 as stated: ocnt is the number of Batches placed on toWorker channels
\* minus the number of acknowledgments received.
C9_CountsSendsOnly == ocnt = TotalDelivered - TotalAcked

\* C9 amended: ocnt is incremented once per admitted Batch, placed on toWorker
\* or queued in the pending list alike, and decremented once per acknowledgment
\* received: ocnt is the number of Batches placed on toWorker channels plus the
\* number held in pending queues minus the number of acknowledgments received,
\* and every step changes it by the admits minus the acknowledgments of the step.
C9_CountsQueuedToo ==
    [][ /\ ocnt' = TotalDelivered' + TotalPending' - TotalAcked'
        /\ ocnt' - ocnt = (TotalAdmitted' - TotalAdmitted) - (TotalAcked' - TotalAcked)
      ]_vars

\* C9 witness: a Batch has just been queued, not sent, and was counted.
C9_Witness ==
    /\ lastOp.op = "admit"
    /\ ocnt = lastOp.count + 1
    /\ outstandingBatches[lastOp.lane] = Append(lastOp.unsent, lastOp.batch)
    /\ toWorker[lastOp.lane] = lastOp.ch
    /\ ocnt > TotalDelivered - TotalAcked

\* C10: every admit step adds exactly 1 to ocnt; it places the Batch on
\* toWorker and leaves the pending queue alone iff the lane's pending queue is
\* empty and len(toWorker) < cap(toWorker); otherwise, also when the channel has
\* room behind a non-empty queue, it appends the Batch to the tail of the
\* pending queue and leaves the channel alone.
C10_AdmitSendsOrQueues ==
    [][ \A i \in Lanes :
          Len(admitted'[i]) = Len(admitted[i]) + 1 =>
             LET b == admitted'[i][Len(admitted'[i])].batch
             IN  /\ ocnt' = ocnt + 1
                 /\ IF outstandingBatches[i] = <<>> /\ Len(toWorker[i]) < Capacity
                    THEN /\ toWorker'[i] = Append(toWorker[i], b)
                         /\ outstandingBatches'[i] = outstandingBatches[i]
                    ELSE /\ outstandingBatches'[i] = Append(outstandingBatches[i], b)
                         /\ toWorker'[i] = toWorker[i]
      ]_vars

\* C10 witness: an admit that found a non-empty pending queue while toWorker had
\* a free place, and queued the Batch behind it.
C10_Witness ==
    /\ lastOp.op = "admit"
    /\ lastOp.unsent # <<>>
    /\ Len(lastOp.ch) < Capacity
    /\ outstandingBatches[lastOp.lane] = Append(lastOp.unsent, lastOp.batch)
    /\ ocnt = lastOp.count + 1

\* ------------------------------------------------- the ledger operations alone
\* TestAckAndMaybeSend and TestSendOrQueueBatch call the two ledger operations
\* on one duplexChannel with counts and queues of their own choice, and read
\* toWorker themselves.  A testBatch with id p is the Batch <<p>>.
UnitBatches == {<<p>> : p \in 1 .. MaxUnit}

UnitQueues == UNION {[1 .. n -> UnitBatches] : n \in 0 .. MaxUnit}

LedgerInit ==
    /\ numChannels = 1
    /\ queueLen \in 1 .. MaxCap
    /\ batchSize = 1
    /\ limit = 0
    /\ hashWorkers = FALSE
    /\ indexer = GetPointIndexer(hashWorkers)
    /\ OthersIdle
    /\ input = <<>>
    /\ pc = "unit"
    /\ itemsRead = 0
    /\ called = 0
    /\ batches = [i \in Lanes |-> <<>>]
    /\ outstandingBatches \in [Lanes -> UnitQueues]
    /\ ocnt \in 0 .. MaxUnit
    /\ chosen = 0
    /\ flushIdx = 0
    /\ toWorker \in [Lanes -> {q \in UnitQueues : Len(q) <= Capacity}]
    /\ toScanner = [i \in Lanes |-> 0]
    /\ wpc = [i \in Lanes |-> "recv"]
    /\ admitted = [i \in Lanes |-> <<>>]
    /\ delivered = [i \in Lanes |-> <<>>]
    /\ acked = [i \in Lanes |-> 0]
    /\ lastOp = NoOp
    /\ created = 0
    /\ panicMsg = ""
    /\ closed = [i \in Lanes |-> 0]
    /\ batchId = [i \in Lanes |-> 0]

\* unsent = sendOutstandingBatchToWorker(ch, &count, unsent); the call returns
\* only when its send, if it has one, found a free place on toWorker
UnitRelease ==
    /\ pc = "unit"
    /\ ocnt > -MaxUnit
    /\ Len(outstandingBatches[0]) > 0 => CanSendToWorker(toWorker[0])
    /\ LET r == sendOutstandingBatchToWorker(toWorker[0], ocnt, outstandingBatches[0])
       IN  /\ ocnt' = r.count
           /\ toWorker' = [toWorker EXCEPT ![0] = r.ch]
           /\ outstandingBatches' = [outstandingBatches EXCEPT ![0] = r.unsent]
    /\ lastOp' = [op |-> "release", lane |-> 0, count |-> ocnt,
                  unsent |-> outstandingBatches[0], ch |-> toWorker[0],
                  batch |-> <<>>]
    /\ UNCHANGED <<config, pc, itemsRead, batches, chosen, flushIdx, called,
                   toScanner, wpc, admitted, delivered, acked, observed,
                   lifecycle>>

\* unsent = sendOrQueueBatch(ch, &count, b, unsent)
UnitAdmit(b) ==
    /\ pc = "unit"
    /\ ocnt < MaxUnit
    /\ Len(outstandingBatches[0]) < MaxUnit
    /\ LET r == sendOrQueueBatch(toWorker[0], ocnt, b, outstandingBatches[0])
       IN  /\ ocnt' = r.count
           /\ toWorker' = [toWorker EXCEPT ![0] = r.ch]
           /\ outstandingBatches' = [outstandingBatches EXCEPT ![0] = r.unsent]
    /\ lastOp' = [op |-> "admit", lane |-> 0, count |-> ocnt,
                  unsent |-> outstandingBatches[0], ch |-> toWorker[0],
                  batch |-> b]
    /\ UNCHANGED <<config, pc, itemsRead, batches, chosen, flushIdx, called,
                   toScanner, wpc, admitted, delivered, acked, observed,
                   lifecycle>>

\* batch := <-ch.toWorker
UnitReceive ==
    /\ pc = "unit"
    /\ Len(toWorker[0]) > 0
    /\ toWorker' = [toWorker EXCEPT ![0] = Tail(@)]
    /\ UNCHANGED <<config, pc, itemsRead, batches, outstandingBatches, ocnt, chosen,
                   flushIdx, called, toScanner, wpc, history, observed,
                   lifecycle>>

LedgerNext ==
    \/ UnitRelease
    \/ \E b \in UnitBatches : UnitAdmit(b)
    \/ UnitReceive

LedgerSpec == LedgerInit /\ [][LedgerNext]_vars

\* C11: every call of the release operation lowers the counter by exactly 1,
\* also when the pending queue is empty (0 becomes -1).  With a non-empty
\* queue it places exactly the head of the queue on toWorker and returns the
\* rest in the same order; with an empty queue it places nothing and returns
\* an empty queue.
C11_ReleaseSemantics ==
    [][ (lastOp' # lastOp /\ lastOp'.op = "release") =>
          /\ ocnt' = ocnt - 1
          /\ IF Len(outstandingBatches[0]) > 0
             THEN /\ toWorker'[0] = Append(toWorker[0], Head(outstandingBatches[0]))
                  /\ outstandingBatches'[0] = Tail(outstandingBatches[0])
             ELSE /\ toWorker'[0] = toWorker[0]
                  /\ outstandingBatches'[0] = <<>>
      ]_vars

\* C11 witness: a release that found the counter at 0 and the pending queue
\* empty has left the counter at -1, the queue empty and the channel as it was.
C11_Witness ==
    /\ pc = "unit"
    /\ lastOp.op = "release"
    /\ lastOp.count = 0
    /\ lastOp.unsent = <<>>
    /\ ocnt = -1
    /\ outstandingBatches[0] = <<>>
    /\ toWorker[0] = lastOp.ch

\* --------------------------------------------- runs that reach the throttle
\* With the ConstantIndexer every Point goes to channel 0, as in
\* TestScanWithIndexer; the streams are long enough to fill the outstanding
\* limit of MaxLanes channels and to go one Batch beyond it.
LongInputs == {[k \in 1 .. n |-> 0] : n \in 0 .. MaxLong}

LongInit ==
    /\ numChannels \in 1 .. MaxLanes
    /\ queueLen \in 0 .. MaxCap
    /\ batchSize \in 0 .. MaxBatch
    /\ limit \in 0 .. MaxLimit
    /\ hashWorkers = FALSE
    /\ indexer = GetPointIndexer(hashWorkers)
    /\ OthersIdle
    /\ input \in LongInputs
    /\ Constructed

ThrottleInit == Init \/ LongInit

ThrottleSpec == ThrottleInit /\ [][Next]_vars

\* C12: whenever ocnt >= olimit when an iteration of the first loop starts,
\* the dispatcher decodes no further record until it has received one
\* acknowledgment and applied the release operation for it: its only step is
\* that release, or the break on the item limit, which decodes nothing either.
C12_SelfThrottling ==
    [][ (pc = "loopA" /\ ocnt >= olimit) =>
          \/ DispatcherIdle
          \/ /\ LimitReached
             /\ pc' = "flush"
             /\ called' = called
          \/ /\ ~LimitReached
             /\ \E i \in Lanes : /\ toScanner[i] > 0
                                  /\ acked' = [acked EXCEPT ![i] = @ + 1]
             /\ ocnt' = ocnt - 1
             /\ called' = called
             /\ itemsRead' = itemsRead
             /\ pc' \in {"decode", "sendA"}
      ]_vars

\* C12 witness: the first loop received an acknowledgment while ocnt had
\* reached olimit, applied the release and is now about to decode the next
\* record.
C12_Witness ==
    /\ pc = "decode"
    /\ queueLen >= 1
    /\ lastOp.op = "release"
    /\ lastOp.count >= olimit
    /\ ocnt = lastOp.count - 1
    /\ called < Len(input)

\* the loops of scanWithIndexer: reading, and sending the rest and waiting
PhaseA == {"loopA", "decode", "sendA"}
PhaseB == {"flush", "loopB", "sendB", "done"}

\* C13: with channels of capacity >= 1, ocnt never exceeds olimit while the
\* dispatcher is in its first loop, and never exceeds olimit + numChannels
\* afterwards.
C13_OutstandingBound ==
    queueLen >= 1 =>
        /\ pc \notin PhaseB => ocnt <= numChannels * Capacity * OLimitFactor
        /\ pc \in PhaseB => ocnt <= numChannels * Capacity * OLimitFactor + numChannels

\* C13 witness: two channels, and an admit of the first loop has brought ocnt
\* up to olimit exactly.
C13_Witness ==
    /\ pc = "loopA"
    /\ queueLen >= 1
    /\ numChannels >= 2
    /\ lastOp.op = "admit"
    /\ ocnt = olimit
    /\ called < Len(input)

\* C14: with an outstanding limit of 0 the first record is decoded and admitted
\* without an acknowledgment: at the head of the first loop, with nothing
\* decoded yet, the select of the dispatcher still has its default case.
C14_FirstDecodeNeedsNoAck ==
    (olimit = 0 /\ pc = "loopA" /\ called = 0 /\ ~LimitReached) =>
        DefaultCaseOffered(ocnt)

\* C15: while ocnt < olimit the acknowledgment check of the first loop never
\* suspends the dispatcher: it can always take a step, which receives an
\* acknowledgment only if one is already on toScanner and otherwise goes
\* straight on to decode, changing nothing.
C15_NonBlockingCheck ==
    /\ [](pc = "loopA" /\ ~LimitReached /\ ocnt < olimit =>
             ENABLED (SelectDefault \/ \E i \in 0 .. MaxLanes - 1 : SelectAck(i)))
    /\ [][ (pc = "loopA" /\ ~LimitReached /\ ocnt < olimit) =>
             \/ DispatcherIdle
             \/ \E i \in Lanes : /\ toScanner[i] > 0
                                  /\ toScanner'[i] = toScanner[i] - 1
                                  /\ acked' = [acked EXCEPT ![i] = @ + 1]
                                  /\ ocnt' = ocnt - 1
             \/ /\ \A i \in Lanes : toScanner[i] = 0
                /\ pc' = "decode"
                /\ UNCHANGED <<ocnt, acked, outstandingBatches, toWorker, called>>
         ]_vars

\* C15 witness: with a Batch outstanding, ocnt < olimit and no acknowledgment
\* waiting, the dispatcher went on to decode at once.
C15_Witness ==
    /\ pc = "decode"
    /\ lastOp.op = "admit"
    /\ ocnt >= 1
    /\ ocnt < olimit
    /\ TotalAcked = 0
    /\ \A i \in Lanes : toScanner[i] = 0

\* C16: a --batch-size below 1 is fatal when scanWithIndexer starts: the run
\* panics with the message of the check before it has created a Batch,
\* decoded a record or sent anything.
C16_BatchSizeFatal ==
    batchSize < 1 =>
        /\ pc \in {"start", "panic"}
        /\ pc = "panic" => panicMsg = BatchSizeMsg
        /\ created = 0
        /\ called = 0
        /\ itemsRead = 0
        /\ TotalAdmitted = 0
        /\ TotalDelivered = 0

\* C16 witness: a run with records to read and working channels has panicked
\* on its batch size.
C16_Witness ==
    /\ batchSize < 1
    /\ pc = "panic"
    /\ panicMsg = BatchSizeMsg
    /\ queueLen >= 1
    /\ Len(input) >= 1

\* C17: a run over channels created with queue length 0 aborts at once: once
\* started it is in no other state than the panic.
C17_ZeroCapacityAborts ==
    (queueLen = 0 /\ pc # "start") => pc = "panic"

\* ------------------------------------------------ a reader that can fail
\* testDecoder.Decode panics when the reader fails with anything but io.EOF;
\* the failure can come at any record.  called counts the records it returned.
\* a scanner that logs the failure and takes it for the end of the input
DecodeErrorTakenAsEnd ==
    /\ pc = "decode"
    /\ pc' = "flush"
    /\ flushIdx' = 0
    /\ panicMsg' = DecodeMsg
    /\ UNCHANGED <<config, itemsRead, batches, outstandingBatches, ocnt, chosen,
                   called, toWorker, toScanner, wpc, history, created,
                   lifecycle>>

\* ch, err := br.ReadByte(); if err != nil && err != io.EOF { panic(err) }
DecodeError ==
    /\ pc = "decode"
    /\ pc' = "panic"
    /\ panicMsg' = DecodeMsg
    /\ UNCHANGED <<config, itemsRead, batches, outstandingBatches, ocnt, chosen,
                   flushIdx, called, toWorker, toScanner, wpc, history, created,
                   lifecycle>>

ReadErrorNext == Next \/ DecodeError

ReadErrorSpec == Init /\ [][ReadErrorNext]_vars

C19_IndexOutOfRange ==
    /\ [](panicMsg = IndexMsg =>
             /\ pc = "panic"
             /\ called >= 1
             /\ GetIndex(called) \notin Lanes
             /\ itemsRead = called - 1
             /\ \A i \in Lanes :
                    /\ \A k \in 1 .. Len(batches[i]) : batches[i][k] # called
                    /\ \A j \in 1 .. Len(admitted[i]) :
                          \A k \in 1 .. Len(admitted[i][j].batch) :
                             admitted[i][j].batch[k] # called)
    /\ [][panicMsg = IndexMsg => DispatcherIdle]_vars

\* C19 witness: the run has panicked on a record whose index is outside the
\* channels, after it had read and admitted earlier records.
C19_Witness ==
    /\ panicMsg = IndexMsg
    /\ pc = "panic"
    /\ itemsRead >= 1
    /\ ocnt >= 1
    /\ GetIndex(called) >= numChannels

\* C20: once Decode has returned nil the dispatcher leaves its first loop for
\* good: Decode is not called again, no record is appended to a Batch and the
\* factory makes no new Batch.
C20_NothingAfterEnd ==
    [][ /\ (pc = "decode" /\ called = Len(input) /\ pc' # pc) =>
              /\ pc' = "flush"
              /\ UNCHANGED <<called, itemsRead, batches, created>>
        /\ (pc \in PhaseB /\ ~LimitReached) =>
              /\ pc' \in PhaseB
              /\ UNCHANGED <<called, itemsRead, batches, created>>
      ]_vars

\* C20 witness: after the nil item the last, partial Batch was admitted and an
\* acknowledgment was received and released.
C20_Witness ==
    /\ pc = "loopB"
    /\ ~LimitReached
    /\ called = Len(input)
    /\ lastOp.op = "release"
    /\ \E i \in Lanes : /\ Len(admitted[i]) >= 2
                         /\ admitted[i][Len(admitted[i])].phase = "B"
    /\ created = numChannels + TotalAdmitted - 1

\* ------------------------------------------------------ closing the channels
\* close(dc.toWorker); close(dc.toScanner): two statements, one step each
close(i) ==
    /\ i \in Lanes
    /\ closed[i] < 2
    /\ closed' = [closed EXCEPT ![i] = @ + 1]
    /\ UNCHANGED <<config, pc, itemsRead, batches, outstandingBatches, ocnt, chosen,
                   flushIdx, called, toWorker, toScanner, wpc, history, observed,
                   batchId>>

\* the caller of scanWithIndexer closes the channels once it has returned
CloseAfterReturn(i) == pc = "done" /\ close(i)

\* for _ = range c.toWorker ends when toWorker is closed and has nothing left
WorkerExit(i) ==
    /\ i \in Lanes
    /\ wpc[i] = "recv"
    /\ Len(toWorker[i]) = 0
    /\ closed[i] >= 1
    /\ wpc' = [wpc EXCEPT ![i] = "exit"]
    /\ UNCHANGED <<config, pc, itemsRead, batches, outstandingBatches, ocnt, chosen,
                   flushIdx, called, toWorker, toScanner, history, observed,
                   lifecycle>>

CloseNext ==
    \/ Next
    \/ \E i \in 0 .. MaxLanes - 1 : CloseAfterReturn(i)
    \/ \E i \in 0 .. MaxLanes - 1 : WorkerExit(i)

CloseSpec == Init /\ [][CloseNext]_vars

\* C21: when the channels are closed only after scanWithIndexer has returned,
\* nobody sends or is about to send on a closed channel (no Batch is pending,
\* no worker holds a Batch to acknowledge, and no step adds to a closed
\* channel), both channels of a Link are empty when it is closed, and the loop
\* of its worker can end, which is the only step left to that worker.
C21_CloseAfterReturnIsSafe ==
    /\ [](\A i \in Lanes :
             /\ pc = "done" =>
                   /\ toWorker[i] = <<>>
                   /\ toScanner[i] = 0
                   /\ outstandingBatches[i] = <<>>
                   /\ wpc[i] \in {"recv", "exit"}
             /\ closed[i] >= 1 =>
                   /\ pc = "done"
                   /\ wpc[i] = "exit" \/ ENABLED WorkerExit(i))
    /\ [][ \A i \in Lanes :
             closed[i] >= 1 =>
                /\ toWorker'[i] = toWorker[i]
                /\ toScanner'[i] = toScanner[i]
                /\ delivered'[i] = delivered[i]
                /\ wpc'[i] # wpc[i] => wpc'[i] = "exit"
         ]_vars

\* C21 witness: two channels that carried Batches are closed, both channels of
\* each, and both workers have left their loops.
C21_Witness ==
    /\ pc = "done"
    /\ numChannels = 2
    /\ \A i \in Lanes : /\ closed[i] = 2
                         /\ wpc[i] = "exit"
                         /\ Len(delivered[i]) >= 1
                         /\ acked[i] = Len(delivered[i])

\* --------------------------------------- closing while the dispatcher runs
\* the panic of the Go run time for a send on a closed channel
ClosedMsg == "send on closed channel"

\* the caller closes one Link while scanWithIndexer is still running
CloseEarly(i) ==
    /\ pc \in PhaseA \cup (PhaseB \ {"done"})
    /\ \A j \in Lanes \ {i} : closed[j] = 0
    /\ close(i)

\* this step puts a value on a closed channel
SendOnClosed ==
    \E i \in Lanes :
       \/ closed[i] >= 1 /\ delivered'[i] # delivered[i]
       \/ closed[i] = 2 /\ toScanner'[i] > toScanner[i]

\* a send on a closed channel goes unnoticed
WorkerSendsOnClosedNever(i) == FALSE

\* a worker is at c.sendToScanner() on a closed toScanner
WorkerSendsOnClosed(i) == i \in Lanes /\ wpc[i] = "ack" /\ closed[i] = 2

\* the dispatcher is at, or can go on to, a ch.sendToWorker on a closed toWorker
DispatcherSendsOnClosed ==
    \/ pc \in {"sendA", "sendB"} /\ closed[chosen] >= 1
    \/ ENABLED (Dispatcher /\ \E i \in Lanes : /\ closed[i] >= 1
                                               /\ delivered'[i] # delivered[i])

\* the send on the closed channel panics and the program ends
ClosedSendPanic ==
    /\ DispatcherSendsOnClosed \/ \E i \in Lanes : WorkerSendsOnClosed(i)
    /\ pc' = "panic"
    /\ panicMsg' = ClosedMsg
    /\ UNCHANGED <<config, itemsRead, batches, outstandingBatches, ocnt, chosen,
                   flushIdx, called, toWorker, toScanner, wpc, history, created,
                   lifecycle>>

\* the runs of TestScanWithIndexer with no limit and a Batch per record, over
\* one or more channels
EarlyCloseInit ==
    Init /\ ValidRun /\ limit = 0 /\ indexer = "constant" /\ batchSize = 1

\* a receive from a closed toScanner returns at once, every time, and the
\* dispatcher takes each for an acknowledgment: ocnt can fall without end, so
\* the dispatcher is followed only until ocnt is negative
EarlyCloseNext ==
    \/ panicMsg # ClosedMsg /\ ocnt >= 0 /\ Dispatcher /\ ~SendOnClosed
    \/ \E i \in 0 .. MaxLanes - 1 : panicMsg # ClosedMsg /\ Worker(i) /\ ~SendOnClosed
    \/ \E i \in 0 .. MaxLanes - 1 : panicMsg # ClosedMsg /\ CloseEarly(i)
    \/ \E i \in 0 .. MaxLanes - 1 : panicMsg # ClosedMsg /\ WorkerExit(i)
    \/ panicMsg # ClosedMsg /\ ClosedSendPanic

EarlyCloseSpec == EarlyCloseInit /\ [][EarlyCloseNext]_vars

\* every goroutine that can take a step is run, and so is the send that panics
FairEarlyCloseSpec ==
    /\ EarlyCloseSpec
    /\ WF_vars(EarlyCloseNext /\ Dispatcher)
    /\ \A i \in 0 .. MaxLanes - 1 : WF_vars(EarlyCloseNext /\ (Worker(i) \/ WorkerExit(i)))
    /\ WF_vars(EarlyCloseNext /\ ClosedSendPanic)

\* an admitted Batch was never put on toWorker although the dispatcher returned
LostBatch == pc = "done" /\ TotalDelivered < TotalAdmitted

\* a Batch of lane i is pending, on toWorker or in the hands of the worker
Unacknowledged(i) ==
    outstandingBatches[i] # <<>> \/ toWorker[i] # <<>> \/ wpc[i] = "ack"

WorkerAt(i, place) == i \in Lanes /\ wpc[i] = place

\* the runs whose arguments scanWithIndexer accepts: a channel capacity and a
\* batch size of at least 1, every index of the indexer inside channels
ValidInit == Init /\ ValidRun

\* such a run under the Go scheduler
FairValidSpec ==
    /\ ValidInit
    /\ [][Next]_vars
    /\ WF_vars(Dispatcher)
    /\ \A i \in 0 .. MaxLanes - 1 : WF_vars(Worker(i))

\* C23: in a run with valid arguments every sendToScanner of a worker
\* completes: no worker stays at its acknowledgment forever, also not one that
\* finds toScanner full, because the dispatcher keeps receiving until it returns.
C23_AcknowledgeCompletes ==
    \A i \in 0 .. MaxLanes - 1 : []<>(~WorkerAt(i, "ack"))

C23_Witness ==
    /\ ValidRun
    /\ pc \in PhaseA \cup {"flush", "loopB", "sendB"}
    /\ \E i \in Lanes : /\ wpc[i] = "ack"
                         /\ toScanner[i] = Capacity
                         /\ ~CanSendToScanner(toScanner[i])

\* C24: the send inside sendOrQueueBatch never waits. A step that admits a
\* Batch and places it on toWorker starts with a free place on that channel
\* and leaves the channel within its capacity; and no step of a worker adds to
\* a toWorker channel, so a free place the dispatcher has seen stays free
\* until the dispatcher itself sends.
C24_AdmitSendNeverBlocks ==
    [][\A i \in Lanes :
          /\ (admitted'[i] # admitted[i] /\ delivered'[i] # delivered[i])
                => /\ CanSendToWorker(toWorker[i])
                   /\ Len(outstandingBatches[i]) = 0
                   /\ Len(toWorker'[i]) <= Capacity
          /\ DispatcherIdle => Len(toWorker'[i]) <= Len(toWorker[i])]_vars

\* an admit has sent its Batch directly on a channel whose worker is busy
\* with an earlier Batch of the lane
C24_Witness ==
    /\ lastOp.op = "admit"
    /\ lastOp.unsent = <<>>
    /\ CanSendToWorker(lastOp.ch)
    /\ Len(delivered[lastOp.lane]) >= 2
    /\ delivered[lastOp.lane][Len(delivered[lastOp.lane])] = lastOp.batch
    /\ wpc[lastOp.lane] = "ack"

\* the Points of a sequence of Batches in the order a worker meets them
RECURSIVE Flatten(_)
Flatten(bs) == IF bs = <<>> THEN <<>> ELSE Head(bs) \o Flatten(Tail(bs))

\* the lanes in whose Batches Point p has been put
LanesOf(p) ==
    {i \in Lanes :
        \/ \E k \in 1 .. Len(batches[i]) : batches[i][k] = p
        \/ \E j \in 1 .. Len(admitted[i]) :
              \E k \in 1 .. Len(admitted[i][j].batch) : admitted[i][j].batch[k] = p}

\* the Points in s are in the order in which they were decoded
InDecodeOrder(s) == \A a, b \in 1 .. Len(s) : a < b => s[a] < s[b]

\* C25: records with the same key are always put into Batches of one and the
\* same lane, and the worker of a lane meets the records of the lane in the
\* order in which they were decoded, within a Batch and from Batch to Batch.
C25_SameKeySameLaneInOrder ==
    /\ \A p, q \in 1 .. called :
          input[p] = input[q]
            => LanesOf(p) = LanesOf(q) /\ Cardinality(LanesOf(p)) <= 1
    /\ \A i \in Lanes : InDecodeOrder(Flatten(delivered[i]))

\* two lanes in use; one of them has been sent two Batches with records of
\* one key, the other lane a Batch of another key
C25_Witness ==
    /\ indexer = "data"
    /\ \E i, o \in Lanes :
          /\ i # o
          /\ Len(delivered[i]) >= 2
          /\ Len(delivered[o]) >= 1
          /\ \A a \in 1 .. Len(Flatten(delivered[i])) :
                input[Flatten(delivered[i])[a]] = i
          /\ input[Flatten(delivered[o])[1]] = o

\* C26: without --hash-workers the indexer is ConstantIndexer and the mode is
\* single-queue; in such a run every index is 0 and in range, every record is
\* appended to the Batch of lane 0 and every Batch goes to channels[0], the
\* other lanes stay empty. The indexer on Data is installed only together
\* with the worker-per-queue mode.
C26_DefaultPolicyUsesLaneZero ==
    /\ GetPointIndexer(FALSE) = "constant"
    /\ RunBenchmarkMode(FALSE) = "SingleQueue"
    /\ \A hw \in BOOLEAN :
          GetPointIndexer(hw) = "data" <=> RunBenchmarkMode(hw) = "WorkerPerQueue"
    /\ indexer = GetPointIndexer(hashWorkers)
    /\ ~hashWorkers =>
          /\ \A p \in 1 .. Len(input) : GetIndex(p) = 0 /\ GetIndex(p) \in Lanes
          /\ panicMsg # IndexMsg
          /\ \A p \in 1 .. called : pc # "panic" => LanesOf(p) = {0}
          /\ \A i \in Lanes \ {0} :
                /\ batches[i] = <<>>
                /\ admitted[i] = <<>> /\ outstandingBatches[i] = <<>>
                /\ toWorker[i] = <<>> /\ delivered[i] = <<>>

\* a run without --hash-workers on two channels has read all its records and
\* has sent them on channels[0], in more than one Batch
C26_Witness ==
    /\ ~hashWorkers
    /\ numChannels = 2
    /\ called = MaxInput
    /\ Len(delivered[0]) >= 2
    /\ Len(Flatten(delivered[0])) = MaxInput

\* the Batch objects handed to sendOrQueueBatch so far
AdmittedIds ==
    UNION {{admitted[i][j].id : j \in 1 .. Len(admitted[i])} : i \in Lanes}

\* no Batch object has been handed to sendOrQueueBatch twice
AdmittedOnce ==
    \A i, o \in Lanes :
       \A j \in 1 .. Len(admitted[i]) :
          \A k \in 1 .. Len(admitted[o]) :
             admitted[i][j].id = admitted[o][k].id => i = o /\ j = k

\* C27: Batch ownership. No Batch object is admitted twice; an append goes to
\* a Batch object that has not been admitted; an admitted Batch keeps its
\* records; during the first loop the Batch a lane is filling is never an
\* admitted one, and right after an admit of that loop it is a new, empty
\* object of the factory; the second loop appends to no Batch at all.
C27_BatchOwnership ==
    /\ [](AdmittedOnce
           /\ (pc \in PhaseA =>
                 \A i \in Lanes : /\ batchId[i] \notin AdmittedIds
                                  /\ \A o \in Lanes \ {i} : batchId[o] # batchId[i]))
    /\ [][/\ (called' # called /\ GetIndex(called') \in Lanes)
                => batchId[GetIndex(called')] \notin AdmittedIds
           /\ \A i \in Lanes :
                /\ SubSeq(admitted'[i], 1, Len(admitted[i])) = admitted[i]
                /\ (pc = "decode" /\ admitted'[i] # admitted[i])
                      => /\ batches'[i] = <<>>
                         /\ batchId'[i] # batchId[i]
                         /\ batchId'[i] \notin AdmittedIds'
                /\ pc \in PhaseB => batches'[i] = batches[i]]_vars

\* a lane has handed over a full Batch in the first loop, has gone on filling
\* the next one and has handed that one over in the second loop
C27_Witness ==
    \E i \in Lanes :
       /\ Len(admitted[i]) >= 2
       /\ admitted[i][1].phase = "A"
       /\ admitted[i][Len(admitted[i])].phase = "B"
       /\ admitted[i][1].id # admitted[i][Len(admitted[i])].id

\* ------------------------------------------------------------ stuck worker
\* a worker that has received a Batch never comes to c.sendToScanner()
WorkerStall(i) ==
    /\ i \in Lanes
    /\ wpc[i] = "ack"
    /\ wpc' = [wpc EXCEPT ![i] = "stuck"]
    /\ UNCHANGED <<config, pc, itemsRead, batches, outstandingBatches, ocnt, chosen,
                   flushIdx, called, toWorker, toScanner, history, observed,
                   lifecycle>>

StuckNext == Next \/ \E i \in 0 .. MaxLanes - 1 : WorkerStall(i)

\* runs with valid arguments, short and long inputs, in which workers may stall
StuckInit == ThrottleInit /\ ValidRun

StuckSpec == StuckInit /\ [][StuckNext]_vars

\* some worker holds a Batch it will never acknowledge
AnyStuck == \E i \in Lanes : wpc[i] = "stuck"

\* a worker is stuck and no goroutine can take a step any more: the
\* dispatcher waits, and nothing will end its wait
BlockedForever == AnyStuck /\ ~ENABLED StuckNext

\* reflect.Select of the first loop without the default case, nothing to receive
AckWaitA ==
    /\ pc = "loopA"
    /\ ~LimitReached
    /\ ~DefaultCaseOffered(ocnt)
    /\ \A i \in Lanes : ~AckReady(i)

\* reflect.Select of the second loop, nothing to receive
AckWaitB ==
    /\ pc = "loopB"
    /\ ~AllAcknowledged(ocnt)
    /\ \A i \in Lanes : ~AckReady(i)

SelectStep ==
    /\ pc = "loopA"
    /\ ~LimitReached
    /\ DefaultCaseOffered(ocnt)
    /\ pc' \in {"decode", "sendA"}

\* lane i had a value on toScanner when the select looked
ReadyAtSelect(i) == i \in Lanes /\ toScanner[i] > 0

\* the step applied the release operation to lane i
Released(i) == acked'[i] = acked[i] + 1 /\ toScanner'[i] = toScanner[i] - 1

\* the step left lane i alone
NotReleased(i) == acked'[i] = acked[i] /\ toScanner'[i] = toScanner[i]

\* C29 as stated: in an iteration of the first loop with ocnt < olimit every
\* lane that has an acknowledgment ready at the select is released in it.
C29_EveryReadyLaneReleased ==
    [][SelectStep => \A i \in Lanes : ReadyAtSelect(i) => Released(i)]_vars

\* C29: in an iteration of the first loop with ocnt < olimit the select
\* releases exactly one of the lanes that have an acknowledgment ready, when
\* there is one, and leaves every other lane as it was, ready or not; the
\* acknowledgments of the other ready lanes stay on their channels. With no
\* lane ready it releases none.
C29_OneReadyLaneReleased ==
    [][SelectStep =>
         \/ /\ \A i \in Lanes : ~ReadyAtSelect(i)
            /\ \A i \in Lanes : NotReleased(i)
            /\ ocnt' = ocnt
         \/ \E i \in Lanes :
               /\ ReadyAtSelect(i)
               /\ Released(i)
               /\ ocnt' = ocnt - 1
               /\ \A o \in Lanes \ {i} : NotReleased(o)]_vars

\* the select has released one lane while another lane had an
\* acknowledgment ready as well, which is still on its channel
C29_Witness ==
    /\ pc \in {"decode", "sendA"}
    /\ lastOp.op = "release"
    /\ lastOp.count < olimit
    /\ chosen = lastOp.lane
    /\ \E o \in Lanes \ {chosen} : toScanner[o] > 0 /\ acked[o] = 0

\* C30: with workers that keep receiving and acknowledging, no Batch stays in
\* a pending queue forever: from some point on every pending queue is empty.
\* A Batch leaves a pending queue only from its head and only onto the end of
\* the toWorker channel of its lane, so it is placed there after all Batches
\* queued before it.
C30_QueuedBatchesAreSent ==
    /\ <>[](\A i \in Lanes : outstandingBatches[i] = <<>>)
    /\ [][\A i \in Lanes :
            Len(outstandingBatches'[i]) < Len(outstandingBatches[i])
              => /\ outstandingBatches'[i] = Tail(outstandingBatches[i])
                 /\ toWorker'[i] = Append(toWorker[i], Head(outstandingBatches[i]))
                 /\ delivered'[i] = Append(delivered[i], Head(outstandingBatches[i]))]_vars

\* a release found two Batches queued on its lane and has placed the older
\* one on toWorker, the younger one is now the head of the queue
C30_Witness ==
    /\ lastOp.op = "release"
    /\ Len(lastOp.unsent) >= 2
    /\ outstandingBatches[lastOp.lane] = Tail(lastOp.unsent)
    /\ Len(delivered[lastOp.lane]) >= 2
    /\ delivered[lastOp.lane][Len(delivered[lastOp.lane])] = Head(lastOp.unsent)

\* the Batches of lane i that are counted in ocnt: those in the pending
\* queue, those on toWorker, the one its worker has taken and not yet
\* acknowledged, and the acknowledgments on toScanner not yet received
InFlight(i) ==
    Len(outstandingBatches[i]) + Len(toWorker[i])
      + (IF wpc[i] = "ack" THEN 1 ELSE 0) + toScanner[i]

\* C31: ocnt is the number of Batches in flight, summed over the lanes:
\* queued, on toWorker, taken by a worker and not yet acknowledged, or
\* acknowledged with the acknowledgment still on toScanner; so ocnt is never
\* less than the number of queued Batches.
C31_CountIsInFlight ==
    /\ ocnt = SumLanes([i \in Lanes |-> InFlight(i)], numChannels)
    /\ ocnt >= TotalPending

\* a lane with a queued Batch, a Batch in the hands of its worker and an
\* acknowledgment waiting on toScanner, all three counted in ocnt
C31_Witness ==
    /\ pc \notin {"sendA", "sendB"}
    /\ ocnt >= 3
    /\ \E i \in Lanes : /\ outstandingBatches[i] # <<>>
                         /\ wpc[i] = "ack"
                         /\ toScanner[i] > 0

\* the Batches of lane i that were placed on toWorker and whose
\* acknowledgment the dispatcher has not received yet
SentUnacked(i) ==
    Len(toWorker[i]) + (IF wpc[i] = "ack" THEN 1 ELSE 0) + toScanner[i]

\* C32: a lane with a queued Batch has at least cap(toWorker) >= 1 Batches
\* that were sent and are not yet acknowledged to the dispatcher, so the
\* acknowledgment that releases the head of its queue is still to come on the
\* lane itself.
C32_QueuedLaneHasSentWork ==
    \A i \in Lanes :
       outstandingBatches[i] # <<>>
         => /\ Capacity >= 1
            /\ SentUnacked(i) >= Capacity
            /\ Len(delivered[i]) - acked[i] = SentUnacked(i)

\* a lane with a queued Batch whose toWorker has a free place again: the
\* sent Batches are with the worker or acknowledged on toScanner
C32_Witness ==
    \E i \in Lanes :
       /\ outstandingBatches[i] # <<>>
       /\ Len(toWorker[i]) < Capacity
       /\ SentUnacked(i) = Capacity
       /\ acked[i] >= 1

\* the step leaves everything of lane o as it was: its Batch in progress, its
\* pending queue, both its channels and what was admitted, sent and
\* acknowledged on it
LaneUntouched(o) ==
    /\ batches'[o] = batches[o]
    /\ outstandingBatches'[o] = outstandingBatches[o]
    /\ toWorker'[o] = toWorker[o]
    /\ toScanner'[o] = toScanner[o]
    /\ admitted'[o] = admitted[o]
    /\ delivered'[o] = delivered[o]
    /\ acked'[o] = acked[o]

\* the step sends nothing on lane i, or the head of its pending queue
SendsAtMostHead(i) ==
    \/ /\ outstandingBatches'[i] = outstandingBatches[i]
       /\ toWorker'[i] = toWorker[i]
    \/ /\ outstandingBatches[i] # <<>>
       /\ outstandingBatches'[i] = Tail(outstandingBatches[i])
       /\ toWorker'[i] = Append(toWorker[i], Head(outstandingBatches[i]))

\* C33: a step that receives an acknowledgment of lane i releases lane i
\* only: it sends at most the head of lane i's pending queue on lane i's
\* toWorker, takes one value from lane i's toScanner, leaves lane i's Batch in
\* progress alone and changes nothing of any other lane; a step that admits a
\* Batch on lane i changes nothing of any other lane either.
C33_OneLanePerStep ==
    [][\A i \in Lanes :
          /\ acked'[i] # acked[i]
                => /\ SendsAtMostHead(i)
                   /\ toScanner'[i] = toScanner[i] - 1
                   /\ batches'[i] = batches[i]
                   /\ admitted'[i] = admitted[i]
                   /\ \A o \in Lanes \ {i} : LaneUntouched(o)
          /\ admitted'[i] # admitted[i]
                => \A o \in Lanes \ {i} : LaneUntouched(o)]_vars

\* a release has sent the head of one lane's queue while the other lane had
\* a Batch of its own on the way
C33_Witness ==
    /\ numChannels = 2
    /\ lastOp.op = "release"
    /\ Len(lastOp.unsent) >= 1
    /\ outstandingBatches[lastOp.lane] = Tail(lastOp.unsent)
    /\ \E o \in Lanes \ {lastOp.lane} : Len(delivered[o]) > acked[o]

\* the dispatcher is inside sendOutstandingBatchToWorker, at the send of the
\* head of the queue, and toWorker is full
SendBlocked ==
    /\ pc \in {"sendA", "sendB"}
    /\ ~CanSendToWorker(toWorker[chosen])

\* C34: the send of a release can find toWorker full, but the dispatcher
\* waiting in it and the worker of that lane are never both unable to move:
\* the worker is at its receive with a Batch to take, or at its
\* acknowledgment with a free place on toScanner (the dispatcher has just
\* taken a value from it); once the worker has taken a Batch the send can go
\* on; and the dispatcher does not stay inside that send forever.
C34_ReleaseSendNoDeadlock ==
    /\ [](SendBlocked
            => /\ outstandingBatches[chosen] # <<>>
               /\ \/ wpc[chosen] = "recv" /\ Len(toWorker[chosen]) > 0
                  \/ wpc[chosen] = "ack" /\ CanSendToScanner(toScanner[chosen]))
    /\ [][(SendBlocked /\ Len(toWorker'[chosen]) < Len(toWorker[chosen]))
            => pc' = pc /\ chosen' = chosen /\ CanSendToWorker(toWorker'[chosen])]_vars
    /\ []<>(pc \notin {"sendA", "sendB"})

\* an acknowledgment has just been received on a lane with a queued Batch
\* and a full toWorker: the dispatcher waits in the send of the release
C34_Witness ==
    /\ SendBlocked
    /\ lastOp.op = "release"
    /\ lastOp.lane = chosen
    /\ outstandingBatches[chosen] = lastOp.unsent
    /\ Len(lastOp.unsent) >= 1
    /\ Len(toWorker[chosen]) = Capacity

\* ------------------------------------------------------ tsbs_generate_data
\* no scanWithIndexer runs: one channel, nothing to read, nothing started
ScannerIdle ==
    /\ numChannels = 1
    /\ queueLen = 1
    /\ batchSize = 1
    /\ limit = 0
    /\ hashWorkers = FALSE
    /\ indexer = GetPointIndexer(hashWorkers)
    /\ input = <<>>
    /\ Constructed

scanner == <<numChannels, queueLen, batchSize, limit, input, indexer, hashWorkers,
             pc, itemsRead, batches, outstandingBatches, ocnt, chosen, flushIdx,
             called, toWorker, toScanner, wpc, history, observed, lifecycle>>

\* the results of sim.Next, call by call, until sim.Finished()
SimRuns == UNION {[1 .. n -> BOOLEAN] : n \in 0 .. MaxPoints}

\* currentInterleavedGroup++ without the return to 0
NextGroupWithoutWrap(cur) == cur + 1

\* currentInterleavedGroup++; if it equals interleavedGenerationGroups, 0
NextGroup(cur) ==
    IF cur + 1 = generator.interleavedGenerationGroups THEN 0 ELSE cur + 1

\* the processes are started with the same seed and with the group ids
\* 0, 1, ...; any number of groups may be configured
GeneratorInit ==
    /\ ScannerIdle
    /\ StatProcessorIdle
    /\ ClickhouseIdle
    /\ generator \in [interleavedGenerationGroups : 0 .. MaxGroups,
                      simNext : SimRuns,
                      gpc : {[g \in Generators |-> "init"]},
                      simCalls : {[g \in Generators |-> 0]},
                      currentInterleavedGroup : {[g \in Generators |-> 0]},
                      serialized : {[g \in Generators |-> <<>>]}]

\* if !(interleavedGenerationGroupID < interleavedGenerationGroups) log.Fatal
GeneratorStart(g) ==
    /\ generator.gpc[g] = "init"
    /\ generator' =
         [generator EXCEPT
             !.gpc[g] = IF g < generator.interleavedGenerationGroups
                        THEN "loop" ELSE "fatal"]
    /\ UNCHANGED <<scanner, statProcessor, clickhouse>>

\* one pass of for !sim.Finished() { write := sim.Next(point) ... }
GeneratorPoint(g) ==
    /\ generator.gpc[g] = "loop"
    /\ generator.simCalls[g] < Len(generator.simNext)
    /\ LET n == generator.simCalls[g] + 1
       IN  generator' =
             IF ~generator.simNext[n]
             THEN [generator EXCEPT !.simCalls[g] = n]
             ELSE [generator EXCEPT
                      !.simCalls[g] = n,
                      !.serialized[g] =
                          IF generator.currentInterleavedGroup[g] = g
                          THEN Append(@, n) ELSE @,
                      !.currentInterleavedGroup[g] = NextGroup(@)]
    /\ UNCHANGED <<scanner, statProcessor, clickhouse>>

\* sim.Finished(): the loop ends, out.Flush()
GeneratorFinish(g) ==
    /\ generator.gpc[g] = "loop"
    /\ generator.simCalls[g] = Len(generator.simNext)
    /\ generator' = [generator EXCEPT !.gpc[g] = "done"]
    /\ UNCHANGED <<scanner, statProcessor, clickhouse>>

GeneratorNext ==
    \E g \in 0 .. MaxGroups - 1 :
       GeneratorStart(g) \/ GeneratorPoint(g) \/ GeneratorFinish(g)

GeneratorSpec == GeneratorInit /\ [][GeneratorNext]_vars

\* the number of calls before call n for which sim.Next returned true: the
\* position, counted from 0, of the point of call n among the written points
WrittenBefore(n) == Cardinality({m \in 1 .. n - 1 : generator.simNext[m]})

\* the calls among the first n whose point is written and falls to group g
CallsOfGroup(g, n) ==
    {m \in 1 .. n : generator.simNext[m]
                     /\ WrittenBefore(m) % generator.interleavedGenerationGroups = g}

\* the elements of the sequence s
Range(s) == {s[j] : j \in 1 .. Len(s)}

\* C35: a process with group id g < G has serialized, of the points it has
\* come past, exactly those for which Next returned true and whose position
\* k among such points has k mod G = g, in that order; calls for which Next
\* returned false do not move its round-robin position. So when the
\* processes 0 .. G-1 have finished, every written point has been
\* serialized by exactly one of them.
C35_InterleavedGroups ==
    /\ \A g \in Generators :
          generator.gpc[g] \in {"loop", "done"}
            => /\ g < generator.interleavedGenerationGroups
               /\ Range(generator.serialized[g]) = CallsOfGroup(g, generator.simCalls[g])
               /\ InDecodeOrder(generator.serialized[g])
               /\ generator.currentInterleavedGroup[g] =
                     WrittenBefore(generator.simCalls[g] + 1) % generator.interleavedGenerationGroups
    /\ (/\ generator.interleavedGenerationGroups >= 1
        /\ \A g \in Generators : g < generator.interleavedGenerationGroups => generator.gpc[g] = "done")
          => \A n \in 1 .. Len(generator.simNext) :
                generator.simNext[n] =>
                   Cardinality({g \in Generators : n \in Range(generator.serialized[g])}) = 1

\* two groups have finished a run with a skipped point between written
\* ones, and each of them has serialized a point
C35_Witness ==
    /\ generator.interleavedGenerationGroups = 2
    /\ \A g \in 0 .. 1 : generator.gpc[g] = "done" /\ generator.serialized[g] # <<>>
    /\ \E n \in 2 .. Len(generator.simNext) : ~generator.simNext[n] /\ generator.simNext[n - 1]
    /\ generator.serialized[1] = <<Len(generator.simNext)>>

\* ----------------------------------------------------- query.statProcessor
\* the Stats of a run: label, isPartial, isWarm (the value plays no part)
StatKinds ==
    {[label |-> "q1", isPartial |-> FALSE, isWarm |-> FALSE],
     [label |-> "q1", isPartial |-> FALSE, isWarm |-> TRUE],
     [label |-> "q2", isPartial |-> TRUE,  isWarm |-> FALSE],
     [label |-> "q2", isPartial |-> FALSE, isWarm |-> FALSE]}

StatRuns == UNION {[1 .. n -> StatKinds] : n \in 0 .. MaxStats}

\* go sp.process(workers) has been started, the workers have Stats to send,
\* CloseAndWait has not been called
StatInit ==
    /\ ScannerIdle
    /\ GeneratorIdle
    /\ ClickhouseIdle
    /\ statProcessor \in [spWorkers : 1 .. MaxStatCap,
                          burnIn : 0 .. MaxBurnIn,
                          prewarmQueries : BOOLEAN,
                          toSendStats : StatRuns,
                          sentStats : {0},
                          spChMade : {FALSE},
                          spCh : {<<>>},
                          spChClosed : {FALSE},
                          wg : {0},
                          ppc : {"make"},
                          spI : {0},
                          statMapping : {NoPushes},
                          discardedStats : {<<>>},
                          reported : {-1},
                          cwpc : {"idle"},
                          sentAtClose : {0}]

\* sp.ch = make(chan *Stat, workers)
ProcessMake ==
    /\ statProcessor.ppc = "make"
    /\ statProcessor' = [statProcessor EXCEPT !.spChMade = TRUE, !.ppc = "add"]
    /\ UNCHANGED <<scanner, generator, clickhouse>>

\* sp.wg.Add(1), and the making of the stat groups
ProcessAdd ==
    /\ statProcessor.ppc = "add"
    /\ statProcessor' = [statProcessor EXCEPT !.wg = @ + 1, !.ppc = "range"]
    /\ UNCHANGED <<scanner, generator, clickhouse>>

\* statMapping[grp].push(stat.value) for the Stat at position n
push(mapping, grp, n) == [mapping EXCEPT ![grp] = Append(@, n)]

\* the pushes of one pass of the loop for a Stat that is past the burn-in
pushStat(mapping, n) ==
    LET st == statProcessor.toSendStats[n]
        own == push(mapping, st.label, n)
        all == IF st.isPartial THEN own ELSE push(own, labelAllQueries, n)
    IN  IF st.isPartial \/ ~statProcessor.prewarmQueries
        THEN all
        ELSE push(all, IF st.isWarm THEN labelWarmQueries ELSE labelColdQueries, n)

\* the Stat at position n moves i: it is whole, and cold when queries are
\* run twice
Counts(n) ==
    /\ ~statProcessor.toSendStats[n].isPartial
    /\ ~statProcessor.prewarmQueries \/ ~statProcessor.toSendStats[n].isWarm

\* for stat := range sp.ch { ... }: one Stat is received and handled
ProcessStat ==
    /\ statProcessor.ppc = "range"
    /\ statProcessor.spCh # <<>>
    /\ LET n == Head(statProcessor.spCh)
       IN  statProcessor' =
             IF statProcessor.spI < statProcessor.burnIn
             THEN [statProcessor EXCEPT
                      !.spCh = Tail(@),
                      !.spI = @ + 1,
                      !.discardedStats = Append(@, n)]
             ELSE [statProcessor EXCEPT
                      !.spCh = Tail(@),
                      !.statMapping = pushStat(@, n),
                      !.spI = IF Counts(n) THEN @ + 1 ELSE @]
    /\ UNCHANGED <<scanner, generator, clickhouse>>

\* the range ends: sp.ch is closed and empty
ProcessEndOfRange ==
    /\ statProcessor.ppc = "range"
    /\ statProcessor.spCh = <<>>
    /\ statProcessor.spChClosed
    /\ statProcessor' = [statProcessor EXCEPT !.ppc = "final"]
    /\ UNCHANGED <<scanner, generator, clickhouse>>

\* "run complete after %d queries", i-sp.burnIn in uint64; sp.wg.Done()
ProcessFinal ==
    /\ statProcessor.ppc = "final"
    /\ statProcessor' =
         [statProcessor EXCEPT
             !.reported = (statProcessor.spI - statProcessor.burnIn) % UintModulus,
             !.wg = @ - 1,
             !.ppc = "end"]
    /\ UNCHANGED <<scanner, generator, clickhouse>>

\* sendStats: sp.ch <- stat, by a worker that has read sp.ch after it was
\* made; the workers send nothing once CloseAndWait has been called
SendStat ==
    /\ statProcessor.cwpc = "idle"
    /\ statProcessor.spChMade
    /\ statProcessor.sentStats < Len(statProcessor.toSendStats)
    /\ Len(statProcessor.spCh) < statProcessor.spWorkers
    /\ statProcessor' =
         [statProcessor EXCEPT
             !.sentStats = @ + 1,
             !.spCh = Append(@, statProcessor.sentStats + 1)]
    /\ UNCHANGED <<scanner, generator, clickhouse>>

\* CloseAndWait: close(sp.ch); the close of a nil channel panics
CloseStats ==
    /\ statProcessor.cwpc = "idle"
    /\ statProcessor' =
         IF statProcessor.spChMade
         THEN [statProcessor EXCEPT
                  !.spChClosed = TRUE,
                  !.cwpc = "wait",
                  !.sentAtClose = statProcessor.sentStats]
         ELSE [statProcessor EXCEPT !.cwpc = "panic"]
    /\ UNCHANGED <<scanner, generator, clickhouse>>

\* CloseAndWait: sp.wg.Wait() returns when the counter is 0
WaitStats ==
    /\ statProcessor.cwpc = "wait"
    /\ statProcessor.wg = 0
    /\ statProcessor' = [statProcessor EXCEPT !.cwpc = "returned"]
    /\ UNCHANGED <<scanner, generator, clickhouse>>

StatNext ==
    \/ ProcessMake
    \/ ProcessAdd
    \/ ProcessStat
    \/ ProcessEndOfRange
    \/ ProcessFinal
    \/ SendStat
    \/ CloseStats
    \/ WaitStats

StatSpec == StatInit /\ [][StatNext]_vars

\* the Stats process has taken from sp.ch so far
ReceivedStats ==
    Len(statProcessor.discardedStats)
      + Cardinality({n \in 1 .. Len(statProcessor.toSendStats) :
                        \E j \in 1 .. Len(statProcessor.statMapping[statProcessor.toSendStats[n].label]) :
                           statProcessor.statMapping[statProcessor.toSendStats[n].label][j] = n})

\* C36: when CloseAndWait has returned, process has taken every Stat that
\* was put on sp.ch before the close and has written the final summary.
C36_CloseAndWaitDrains ==
    statProcessor.cwpc = "returned"
      => /\ ReceivedStats = statProcessor.sentAtClose
         /\ statProcessor.reported # -1
         /\ statProcessor.ppc = "end"

\* the Stats pushed into some stat group
PushedStats == UNION {Range(statProcessor.statMapping[grp]) : grp \in StatGroups}

\* the Stats taken from sp.ch after the first burnIn that count as queries
CountedAfterBurnIn ==
    Cardinality({n \in statProcessor.burnIn + 1 .. ReceivedStats : Counts(n)})

\* C37: process gives the first burnIn Stats it receives back without a push
\* into any group, whatever their label and flags, and no others; every later
\* Stat is pushed into the group of its label; and the query count of the
\* final line is the number of queries counted after those first burnIn.
C37_BurnIn ==
    /\ statProcessor.discardedStats = [n \in 1 .. Min(statProcessor.burnIn, ReceivedStats) |-> n]
    /\ PushedStats \cap Range(statProcessor.discardedStats) = {}
    /\ \A n \in statProcessor.burnIn + 1 .. ReceivedStats :
          Count(statProcessor.statMapping[statProcessor.toSendStats[n].label], n) = 1
    /\ statProcessor.ppc = "end" => statProcessor.reported = CountedAfterBurnIn


\* ---------------------------------------------------------------------------
\* tsbs_load_clickhouse: processCSI and the hostname -> tags_id map
\* ---------------------------------------------------------------------------

Hostnames == 0 .. MaxHosts - 1

\* the rows of one table in one Batch, each row given by its hostname (tags[0])
TableRows == UNION {[1 .. n -> Hostnames] : n \in 1 .. MaxRows}

\* the Batches one worker is handed, in order
BatchRuns == UNION {[1 .. n -> TableRows] : n \in 0 .. MaxBatches}

\* insertTags: one INSERT with a row for every element of tagRows; the code
\* that read the ids back is commented out, and the function returns nil
insertTags(table, tagRows) ==
    [table |-> table \o tagRows, res |-> <<>>]

\* for k, v := range res { p.csi.m[k] = v }
MergeInto(m, res) ==
    [k \in DOMAIN m \cup DOMAIN res |-> IF k \in DOMAIN res THEN res[k] ELSE m[k]]

\* Init with hash-workers off: every processor uses globalSyncCSI, a new map
ProcessorsInit ==
    /\ ScannerIdle
    /\ GeneratorIdle
    /\ StatProcessorIdle
    /\ DBCreatorIdle
    /\ \E rows \in [Processors -> BatchRuns] :
          processors =
            [csiM |-> <<>>,
             tagsTable |-> <<>>,
             rowsLeft |-> rows,
             lpc |-> [w \in Processors |-> IF rows[w] = <<>> THEN "done" ELSE "check"],
             newTags |-> [w \in Processors |-> <<>>]]

\* the rows whose hostname is not a key of the map, under the read lock
CheckTags(w) ==
    /\ processors.lpc[w] = "check"
    /\ LET tagRows == Head(processors.rowsLeft[w])
           new == SelectSeq(tagRows, LAMBDA h : h \notin DOMAIN processors.csiM)
       IN processors' =
            [processors EXCEPT
                !.newTags[w] = new,
                !.lpc[w] = IF Len(new) > 0 THEN "insert" ELSE "copy"]
    /\ UNCHANGED <<scanner, generator, statProcessor, dbCreator>>

\* insertTags and the update of the map, under the write lock
InsertNewTags(w) ==
    /\ processors.lpc[w] = "insert"
    /\ LET done == insertTags(processors.tagsTable, processors.newTags[w])
       IN processors' =
            [processors EXCEPT
                !.tagsTable = done.table,
                !.csiM = MergeInto(@, done.res),
                !.lpc[w] = "copy"]
    /\ UNCHANGED <<scanner, generator, statProcessor, dbCreator>>

\* the tags_id of every data row is looked up under the read lock, the data
\* rows are copied in, and ProcessBatch goes on to the next Batch
CopyRows(w) ==
    /\ processors.lpc[w] = "copy"
    /\ processors' =
         [processors EXCEPT
             !.rowsLeft[w] = Tail(@),
             !.lpc[w] = IF Len(processors.rowsLeft[w]) = 1 THEN "done" ELSE "check",
             !.newTags[w] = <<>>]
    /\ UNCHANGED <<scanner, generator, statProcessor, dbCreator>>

ProcessorsNext ==
    \E w \in Processors : CheckTags(w) \/ InsertNewTags(w) \/ CopyRows(w)

ProcessorsSpec == ProcessorsInit /\ [][ProcessorsNext]_vars

\* C38: once the tags table holds a row for a hostname, no step of any
\* processor sharing the map adds another row for that hostname.
C38_NoHostnameInsertedAgain ==
    [][\A h \in Hostnames :
          Count(processors.tagsTable, h) >= 1
            => Count(processors'.tagsTable, h) = Count(processors.tagsTable, h)]_vars

\* ---------------------------------------------------------------------------
\* tsbs_load_clickhouse: dbCreator.readDataHeader
\* ---------------------------------------------------------------------------

\* the bytes of the input: a letter, a blank and the line feed
Bytes == {"a", " ", "\n"}

\* what strings.TrimSpace removes
Whitespace == {" ", "\n"}

HeaderInputs == UNION {[1 .. n -> Bytes] : n \in 0 .. MaxHeader}

\* strings.TrimSpace that removes nothing
TrimSpaceNothing(s) == s

\* strings.TrimSpace: s without its leading and trailing white space
TrimSpace(s) ==
    LET kept == {j \in 1 .. Len(s) : s[j] \notin Whitespace}
    IN IF kept = {}
       THEN <<>>
       ELSE SubSeq(s, CHOOSE j \in kept : \A k \in kept : j <= k,
                      CHOOSE j \in kept : \A k \in kept : k <= j)

\* br.ReadString('\n') with pos bytes consumed: the bytes up to and including
\* the next line feed, or the rest of the input and io.EOF if there is none
ReadString(buf, pos) ==
    LET feeds == {j \in pos + 1 .. Len(buf) : buf[j] = "\n"}
    IN IF feeds = {}
       THEN [line |-> SubSeq(buf, pos + 1, Len(buf)), err |-> TRUE, pos |-> Len(buf)]
       ELSE LET j == CHOOSE f \in feeds : \A g \in feeds : f <= g
            IN [line |-> SubSeq(buf, pos + 1, j), err |-> FALSE, pos |-> j]

headerFormat == "input has wrong header format: %v"

\* Init, before the loop of readDataHeader: i = 0, d.tags and d.cols empty
HeaderInit ==
    /\ ScannerIdle
    /\ GeneratorIdle
    /\ StatProcessorIdle
    /\ ProcessorsIdle
    /\ dbCreator \in [br : HeaderInputs,
                      brPos : {0},
                      dTags : {<<>>},
                      dCols : {<<>>},
                      hpc : {"first"},
                      fatalMsg : {""}]

\* the iteration with i = 0
ReadFirstLine ==
    /\ dbCreator.hpc = "first"
    /\ LET r == ReadString(dbCreator.br, dbCreator.brPos)
       IN dbCreator' =
            IF r.err
            THEN [dbCreator EXCEPT
                     !.brPos = r.pos,
                     !.dTags = r.line,
                     !.hpc = "fatal",
                     !.fatalMsg = headerFormat]
            ELSE [dbCreator EXCEPT
                     !.brPos = r.pos,
                     !.dTags = TrimSpace(r.line),
                     !.hpc = "next"]
    /\ UNCHANGED <<scanner, generator, statProcessor, processors>>

\* an iteration with i > 0
ReadNextLine ==
    /\ dbCreator.hpc = "next"
    /\ LET r == ReadString(dbCreator.br, dbCreator.brPos)
           line == TrimSpace(r.line)
       IN dbCreator' =
            IF r.err
            THEN [dbCreator EXCEPT
                     !.brPos = r.pos,
                     !.hpc = "fatal",
                     !.fatalMsg = headerFormat]
            ELSE IF Len(line) = 0
                 THEN [dbCreator EXCEPT !.brPos = r.pos, !.hpc = "done"]
                 ELSE [dbCreator EXCEPT !.brPos = r.pos, !.dCols = Append(@, line)]
    /\ UNCHANGED <<scanner, generator, statProcessor, processors>>

HeaderNext == ReadFirstLine \/ ReadNextLine

HeaderSpec == HeaderInit /\ [][HeaderNext]_vars

\* the positions of the line feeds of the input
LineFeeds == {j \in 1 .. Len(dbCreator.br) : dbCreator.br[j] = "\n"}

\* the position of the k-th line feed, 0 for k = 0
LineFeed(k) ==
    IF k = 0 THEN 0
    ELSE CHOOSE j \in LineFeeds : Cardinality({f \in LineFeeds : f <= j}) = k

\* the k-th line of the input, with its line feed
Line(k) == SubSeq(dbCreator.br, LineFeed(k - 1) + 1, LineFeed(k))

\* the lines after the first that hold white space only
BlankLines ==
    {k \in 2 .. Cardinality(LineFeeds) : \A j \in 1 .. Len(Line(k)) : Line(k)[j] \in Whitespace}

\* the first of them
HeaderEnd == CHOOSE k \in BlankLines : \A l \in BlankLines : k <= l

\* C39: when readDataHeader returns, the input has a blank line after its
\* first line, the reader has consumed the bytes up to and including the first
\* such line and no more, d.tags is the first line and d.cols the lines
\* between, in order; when it ends in fatal, the input has no such blank
\* line and the message is "input has wrong header format".
C39_HeaderRead ==
    /\ dbCreator.hpc = "done" =>
          /\ BlankLines # {}
          /\ dbCreator.brPos = LineFeed(HeaderEnd)
          /\ dbCreator.dTags = TrimSpace(Line(1))
          /\ dbCreator.dCols = [k \in 1 .. HeaderEnd - 2 |-> TrimSpace(Line(k + 1))]
    /\ dbCreator.hpc = "fatal" =>
          /\ BlankLines = {}
          /\ dbCreator.brPos = Len(dbCreator.br)
          /\ dbCreator.fatalMsg = headerFormat

\* a header with a table line has been read and data records follow it
C39_Witness ==
    /\ dbCreator.hpc = "done"
    /\ Len(dbCreator.dCols) >= 1
    /\ dbCreator.brPos < Len(dbCreator.br)

====
